---- MODULE Spec2Model ----
(***************************************************************************)
(* A model of the conversational decision engine of the Yara chatbot:      *)
(* the intent recognizer and the response orchestrator (src/nlp.py), the   *)
(* session memory (src/backend/src/memory.py) and the chat endpoints       *)
(* (src/backend/src/routes.py).                                            *)
(*                                                                         *)
(* Text is modelled character by character with TLA+ strings: lower(),     *)
(* strip(), substring tests and the regular expressions of the source are  *)
(* computed on the characters of the utterance.  Emoji of the canned       *)
(* texts are left out of the string literals.  Scores and confidences are  *)
(* counted in thousandths (0.3 is 300, the threshold 0.7 is 700).          *)
(* Wall-clock readings (timestamp, session_age, session_start) are never   *)
(* read back by any operation and are not part of the state.               *)
(***************************************************************************)
EXTENDS Integers, Sequences, FiniteSets, TLC

VARIABLES
    memory,           \* SessionMemory.memory: insertion-ordered <<[key, value]>>
    memory_metadata,  \* SessionMemory.memory_metadata: <<[key, source]>>
    chat_history,     \* ChatbotNLP.chat_history: <<[user, assistant]>>
    db_connected,     \* db_manager.is_connected
    generator_loaded, \* ChatbotNLP.generator is not None
    sentence_model,   \* IntentRecognizer.sentence_model is not None
    last,             \* the last operation: its arguments and what it returned
    appended,         \* the turns handed to add_to_history since the last
                      \* clear, each with the session_id of its request
    owner             \* for each stored key, the session whose request stored it

vars == <<memory, memory_metadata, chat_history, db_connected, generator_loaded,
          sentence_model, last, appended, owner>>

None == "<None>"

(***************************************************************************)
(* Strings                                                                 *)
(***************************************************************************)
At(s, i) == SubSeq(s, i, i)

From(s, i) == SubSeq(s, i, Len(s))

IsAt(s, lit, i) == /\ i >= 1
                   /\ i + Len(lit) - 1 <= Len(s)
                   /\ SubSeq(s, i, i + Len(lit) - 1) = lit

\* Python's `lit in s`
Contains(s, lit) == \E i \in 1..(Len(s) - Len(lit) + 1) : IsAt(s, lit, i)

StartsWith(s, lit) == IsAt(s, lit, 1)

UpperChars == "ABCDEFGHIJKLMNOPQRSTUVWXYZ"
LowerChars == "abcdefghijklmnopqrstuvwxyz"
DigitChars == "0123456789"

UpperSet == {At(UpperChars, i) : i \in 1..26}

LowerOf == [c \in UpperSet |-> At(LowerChars, CHOOSE i \in 1..26 : At(UpperChars, i) = c)]

LowerChar(c) == IF c \in UpperSet THEN LowerOf[c] ELSE c

\* the characters i..j of s in lower case, by halves
RECURSIVE LowerFrom(_, _, _)
LowerFrom(s, i, j) ==
    IF i > j THEN ""
    ELSE IF i = j THEN LowerChar(At(s, i))
    ELSE LowerFrom(s, i, (i + j) \div 2) \o LowerFrom(s, (i + j) \div 2 + 1, j)

\* str.lower()
Lower(s) == LowerFrom(s, 1, Len(s))

IsSpace(c) == c \in {" ", "\n", "\t", "\r"}

RECURSIVE FirstNonSpace(_, _)
FirstNonSpace(s, i) ==
    IF i > Len(s) \/ ~IsSpace(At(s, i)) THEN i ELSE FirstNonSpace(s, i + 1)

RECURSIVE LastNonSpace(_, _)
LastNonSpace(s, i) ==
    IF i < 1 \/ ~IsSpace(At(s, i)) THEN i ELSE LastNonSpace(s, i - 1)

\* str.strip()
Strip(s) == SubSeq(s, FirstNonSpace(s, 1), LastNonSpace(s, Len(s)))

\* c * n
RECURSIVE Rep(_, _)
Rep(c, n) ==
    IF n <= 0 THEN ""
    ELSE IF n = 1 THEN c
    ELSE Rep(c, n \div 2) \o Rep(c, n - n \div 2)

(***************************************************************************)
(* Regular expressions.  Every rule of the source is an alternation of     *)
(* items of the shape  [\w+] literal [\w+ | [^.!?]+ | \??] , optionally    *)
(* anchored with ^ and $.  An item is the record                           *)
(*   [pre |-> leading \w+, lit |-> literal, tail |-> "", "w", "n" or "q"]. *)
(***************************************************************************)
L(lit)  == [pre |-> FALSE, lit |-> lit, tail |-> ""]    \* literal
LW(lit) == [pre |-> FALSE, lit |-> lit, tail |-> "w"]   \* literal \w+
LN(lit) == [pre |-> FALSE, lit |-> lit, tail |-> "n"]   \* literal [^.!?]+
LQ(lit) == [pre |-> FALSE, lit |-> lit, tail |-> "q"]   \* literal \??
WL(lit) == [pre |-> TRUE,  lit |-> lit, tail |-> ""]    \* \w+ literal

\* \w
IsWordChar(c) == \/ \E i \in 1..26 : At(LowerChars, i) = c \/ At(UpperChars, i) = c
                 \/ \E i \in 1..10 : At(DigitChars, i) = c
                 \/ c = "_"

\* [^.!?]
IsNotPunct(c) == c \notin {".", "!", "?"}

InClass(cls, c) == IF cls = "w" THEN IsWordChar(c) ELSE IsNotPunct(c)

\* the position after the longest run of class characters that starts at i
RECURSIVE RunEnd(_, _, _)
RunEnd(cls, s, i) ==
    IF i <= Len(s) /\ InClass(cls, At(s, i)) THEN RunEnd(cls, s, i + 1) ELSE i

\* where `$` matches: at the end, or just before a final newline
AtDollar(s, i) == i = Len(s) + 1 \/ (i = Len(s) /\ At(s, i) = "\n")

\* The match of an item that starts at position i, as the record
\* [ok, stop (position after the match), group (the text of group 1)];
\* `dollar` asks for a `$` after the item.
NoMatch == [ok |-> FALSE, stop |-> 0, group |-> ""]

MatchAt(item, s, i, dollar) ==
    LET j == IF item.pre THEN RunEnd("w", s, i) ELSE i
        k == j + Len(item.lit)
        e == IF item.tail \in {"w", "n"} THEN RunEnd(item.tail, s, k) ELSE k
        \* with a `$` after it, \w+ and [^.!?]+ take their whole run, and
        \* \?? takes a question mark when there is one
        q == IF item.tail = "q" /\ k <= Len(s) /\ At(s, k) = "?" THEN k + 1 ELSE k
        stop == IF item.tail = "q" THEN (IF dollar /\ ~AtDollar(s, q) THEN k ELSE q)
                ELSE e
    IN  IF /\ i <= Len(s) + 1
           /\ (item.pre => j > i)
           /\ IsAt(s, item.lit, j)
           /\ (item.tail \in {"w", "n"} => e > k)
           /\ (dollar => AtDollar(s, stop))
        THEN [ok |-> TRUE, stop |-> stop,
              group |-> IF item.pre THEN SubSeq(s, i, j - 1)
                        ELSE IF item.tail \in {"w", "n"} THEN SubSeq(s, k, e - 1)
                        ELSE ""]
        ELSE NoMatch

\* re.search(r'^item$', s)
SearchAnchored(item, s) == MatchAt(item, s, 1, TRUE)

\* re.search(r'item', s): the leftmost match
SearchItem(item, s) ==
    LET hits == {i \in 1..Len(s) : MatchAt(item, s, i, FALSE).ok}
    IN  IF hits = {} THEN NoMatch
        ELSE MatchAt(item, s, CHOOSE i \in hits : \A h \in hits : i <= h, FALSE)

\* the first alternative of an alternation that matches at position i
RECURSIVE FirstAltAt(_, _, _, _)
FirstAltAt(alts, n, s, i) ==
    IF n > Len(alts) THEN NoMatch
    ELSE IF MatchAt(alts[n], s, i, FALSE).ok THEN MatchAt(alts[n], s, i, FALSE)
    ELSE FirstAltAt(alts, n + 1, s, i)

\* len(re.findall(alts, s)): non-overlapping matches, scanning left to right
RECURSIVE FindallCount(_, _, _)
FindallCount(alts, s, i) ==
    IF i > Len(s) THEN 0
    ELSE LET m == FirstAltAt(alts, 1, s, i)
         IN  IF m.ok /\ m.stop > i THEN 1 + FindallCount(alts, s, m.stop)
             ELSE FindallCount(alts, s, i + 1)

(***************************************************************************)
(* Session memory: src/backend/src/memory.py                               *)
(***************************************************************************)
RECURSIVE IndexOfKey(_, _, _)
IndexOfKey(m, key, i) ==
    IF i > Len(m) THEN 0
    ELSE IF m[i].key = key THEN i
    ELSE IndexOfKey(m, key, i + 1)

\* `key in self.memory`
HasKey(m, key) == IndexOfKey(m, key, 1) > 0

KeysOf(m) == {m[i].key : i \in 1..Len(m)}

\* dict assignment: a new key goes last, a known key keeps its place
DictSet(m, key, entry) ==
    IF HasKey(m, key) THEN [m EXCEPT ![IndexOfKey(m, key, 1)] = entry]
    ELSE Append(m, entry)

\* del dict[key]
DictDel(m, key) ==
    LET i == IndexOfKey(m, key, 1)
    IN  SubSeq(m, 1, i - 1) \o SubSeq(m, i + 1, Len(m))

\* a store that always adds an entry
StoreMemoryAppend(m, key, value) == Append(m, [key |-> key, value |-> value])

\* SessionMemory.store: the value map after the call
StoreMemory(m, key, value) == DictSet(m, key, [key |-> key, value |-> value])

\* a store that records no metadata
StoreMetadataOmitted(md, key, source) == md

\* SessionMemory.store: the metadata map after the call
StoreMetadata(md, key, source) == DictSet(md, key, [key |-> key, source |-> source])

\* SessionMemory.retrieve
Retrieve(m, key) == IF HasKey(m, key) THEN m[IndexOfKey(m, key, 1)].value ELSE None

RECURSIVE SummaryLines(_, _)
SummaryLines(m, i) ==
    IF i > Len(m) THEN ""
    ELSE (IF i > 1 THEN "\n" ELSE "") \o "* " \o m[i].key \o ": " \o m[i].value
         \o SummaryLines(m, i + 1)

\* SessionMemory.get_memory_summary
GetMemorySummary(m) ==
    IF Len(m) = 0 THEN "I don't have any information stored yet."
    ELSE "Here's what I remember:\n" \o SummaryLines(m, 1)

\* MemoryManager.memory_patterns, in the order of the dictionary
StoreKeys == <<"name", "favorite_color", "location">>

StorePatterns ==
    [name |-> <<LW("my name is "), LW("i'm "), LW("i am "), LW("call me "),
                WL(" is my name")>>,
     favorite_color |-> <<LW("my favorite color is "), LW("my fav color is "),
                          LW("my fav clr is "), LW("i like "), LW("i love "),
                          WL(" is my favorite color")>>,
     location |-> <<LN("i live in "), LN("i'm from "), LN("my location is "),
                    LN("i'm in ")>>]

QueryPatterns ==
    [name |-> <<LQ("what is my name"), LQ("what's my name"),
                LQ("do you know my name"), LQ("remember my name"), LQ("my name")>>,
     favorite_color |-> <<LQ("what is my favorite color"), LQ("what is my fav color"),
                          LQ("what is my fav clr"), LQ("what's my favorite color"),
                          LQ("do you know my favorite color"),
                          LQ("my favorite color")>>,
     location |-> <<LQ("where do i live"), LQ("where am i from"),
                    LQ("what's my location"), LQ("my location")>>]

ForgetPatterns ==
    <<LW("forget my "), L("forget what i told you"), LW("remove my "),
      LW("delete my "), LW("clear my ")>>

SummaryPatterns ==
    <<LQ("what do you remember"), LQ("what do you know about me"),
      LQ("show me what you remember"), LQ("my information")>>

\* the first pattern of a list that re.search finds in s: [ok, group]
RECURSIVE FirstSearch(_, _, _, _)
FirstSearch(patterns, n, s, anchored) ==
    IF n > Len(patterns) THEN NoMatch
    ELSE LET m == IF anchored THEN SearchAnchored(patterns[n], s)
                  ELSE SearchItem(patterns[n], s)
         IN  IF m.ok THEN m ELSE FirstSearch(patterns, n + 1, s, anchored)

\* the first store_* / query_* group, in dictionary order, with a matching
\* pattern: [ok, key, group]
RECURSIVE FirstKeyed(_, _, _)
FirstKeyed(table, n, s) ==
    IF n > Len(StoreKeys) THEN [ok |-> FALSE, key |-> None, group |-> ""]
    ELSE LET m == FirstSearch(table[StoreKeys[n]], 1, s, TRUE)
         IN  IF m.ok THEN [ok |-> TRUE, key |-> StoreKeys[n], group |-> m.group]
             ELSE FirstKeyed(table, n + 1, s)

\* the forget loop's test of one stored key against the token: the token is
\* part of the key, or the key part of the token
KeyMatches(key, token) == Contains(key, token) \/ Contains(token, key)

\* the forget loop's search for the stored key the token names: the first key,
\* in insertion order, that passes the test (`hits` is the set of such keys)
RECURSIVE ResolveKey(_, _, _)
ResolveKey(m, hits, i) ==
    IF i > Len(m) THEN None
    ELSE IF m[i].key \in hits THEN m[i].key
    ELSE ResolveKey(m, hits, i + 1)

StoreAck(key, value) ==
    IF key = "name"
    THEN "Nice to meet you, " \o value \o "! I'll remember that during this chat."
    ELSE IF key = "favorite_color"
    THEN "Got it! I'll remember that your favorite color is " \o value \o "."
    ELSE IF key = "location"
    THEN "Thanks! I'll remember you're from " \o value \o "."
    ELSE "I'll remember that your " \o key \o " is " \o value \o "."

QueryAnswer(key, value) ==
    IF key = "name" THEN "Your name is " \o value \o "."
    ELSE IF key = "favorite_color" THEN "Your favorite color is " \o value \o "."
    ELSE IF key = "location" THEN "You're from " \o value \o "."
    ELSE "Your " \o key \o " is " \o value \o "."

\* the prompt for an unknown key without the key-specific wordings
QueryUnknownGeneric(key) == "I don't know your " \o key \o " yet. Could you tell me?"

QueryUnknown(key) ==
    IF key = "name" THEN "I don't know yet! What's your name?"
    ELSE IF key = "favorite_color" THEN "I don't know yet! What's your favorite color?"
    ELSE IF key = "location" THEN "I don't know yet! Where are you from?"
    ELSE "I don't know your " \o key \o " yet. Could you tell me?"

ForgetAllText == "Alright, I'll forget everything you told me for now."

ForgetKeyText(key) == "Alright, I'll forget your " \o key \o " for now."

ForgetNothingText(token) ==
    "I don't have your " \o token \o " stored, so there's nothing to forget."

\* the four rule groups of process_input, each as the result it returns when
\* it is the one that answers
Outcome(response, action, key, m, md) ==
    [response |-> response, action |-> action, key |-> key,
     memory |-> m, metadata |-> md]

\* ForgetBranch that looks at the captured key before the clear-all phrase
ForgetBranchKeyFirst(p, m, md) ==
    IF p.forget.group = ""
    THEN Outcome(ForgetAllText, "forget", None, <<>>, <<>>)
    ELSE LET f == p.forget
             actual == ResolveKey(m, p.hits, 1)
         IN  IF actual /= None /\ actual /= ""
             THEN Outcome(ForgetKeyText(actual), "forget", actual,
                          DictDel(m, actual), DictDel(md, actual))
             ELSE Outcome(ForgetNothingText(f.group), "forget", None, m, md)

\* ForgetBranch that empties the store when the token names no stored key
ForgetBranchClearsUnresolved(p, m, md) ==
    IF p.told
    THEN Outcome(ForgetAllText, "forget", None, <<>>, <<>>)
    ELSE LET f == p.forget
             actual == ResolveKey(m, p.hits, 1)
         IN  IF actual /= None /\ actual /= ""
             THEN Outcome(ForgetKeyText(actual), "forget", actual,
                          DictDel(m, actual), DictDel(md, actual))
             ELSE Outcome(ForgetNothingText(f.group), "forget", None, <<>>, <<>>)

ForgetBranch(p, m, md) ==
    IF p.told
    THEN Outcome(ForgetAllText, "forget", None, <<>>, <<>>)
    ELSE LET f == p.forget
             actual == ResolveKey(m, p.hits, 1)
         IN  IF actual /= None /\ actual /= ""
             THEN Outcome(ForgetKeyText(actual), "forget", actual,
                          DictDel(m, actual), DictDel(md, actual))
             ELSE Outcome(ForgetNothingText(f.group), "forget", None, m, md)

SummaryBranch(m, md) == Outcome(GetMemorySummary(m), "summary", None, m, md)

StoreBranch(st, m, md) ==
    LET value == Strip(st.group)
    IN  Outcome(StoreAck(st.key, value), "store", st.key,
                StoreMemory(m, st.key, value),
                StoreMetadata(md, st.key, "user_input"))

QueryBranch(q, m, md) ==
    LET stored == Retrieve(m, q.key)
    IN  IF stored /= None /\ stored /= ""
        THEN Outcome(QueryAnswer(q.key, stored), "query", q.key, m, md)
        ELSE Outcome(QueryUnknown(q.key), "query", q.key, m, md)

\* the keys a store can hold in this model
KnownKeys == {"name", "favorite_color", "location", "nickname"}

\* what the rules find in the lowercased utterance; none of it depends on the
\* store: the first match of each rule group, whether the utterance says
\* 'what i told you', and the keys that the forget token names
MemoryParse(low) ==
    [low     |-> low,
     forget  |-> FirstSearch(ForgetPatterns, 1, low, FALSE),
     told    |-> Contains(low, "what i told you"),
     hits    |-> UNION {{k \in KnownKeys : KeyMatches(k, token)} :
                        token \in {FirstSearch(ForgetPatterns, 1, low, FALSE).group}},
     summary |-> FirstSearch(SummaryPatterns, 1, low, FALSE),
     store   |-> FirstKeyed(StorePatterns, 1, low),
     query   |-> FirstKeyed(QueryPatterns, 1, low)]

\* process_input with the store rules tried before the summary rules
ProcessParsedStoreFirst(p, m, md) ==
    IF p.forget.ok THEN ForgetBranch(p, m, md)
    ELSE IF p.store.ok THEN StoreBranch(p.store, m, md)
    ELSE IF p.summary.ok THEN SummaryBranch(m, md)
    ELSE IF p.query.ok THEN QueryBranch(p.query, m, md)
    ELSE Outcome(None, "none", None, m, md)

\* MemoryManager.process_input on a parsed utterance
ProcessParsed(p, m, md) ==
    IF p.forget.ok THEN ForgetBranch(p, m, md)
    ELSE IF p.summary.ok THEN SummaryBranch(m, md)
    ELSE IF p.store.ok THEN StoreBranch(p.store, m, md)
    ELSE IF p.query.ok THEN QueryBranch(p.query, m, md)
    ELSE Outcome(None, "none", None, m, md)

\* MemoryManager.get_context_for_nlp
RECURSIVE ContextLines(_, _)
ContextLines(m, i) ==
    IF i > Len(m) THEN ""
    ELSE "\n- " \o m[i].key \o ": " \o m[i].value \o ContextLines(m, i + 1)

GetContextForNlp(m) ==
    IF Len(m) = 0 THEN "" ELSE "User Information:" \o ContextLines(m, 1)

(***************************************************************************)
(* Intent recognition: src/nlp.py, IntentRecognizer                        *)
(***************************************************************************)
\* the keys of intent_patterns (and of intent_examples), in dictionary order
Intents ==
    <<"revenue_query", "customer_query", "product_query", "greeting",
      "personal_question", "gratitude", "farewell", "memory_query",
      "memory_store", "memory_manage", "general_chat">>

IntentSet == {Intents[i] : i \in 1..Len(Intents)}

DbIntents == {"revenue_query", "customer_query", "product_query"}

\* AppConfig.INTENT_THRESHOLD (0.7), in thousandths
INTENT_THRESHOLD == 700

\* the weight of one pattern match (0.3), in thousandths
PatternWeight == 300

\* the weight of the best cosine similarity (0.7); similarities are counted
\* in tenths, so one tenth weighs 70 thousandths
SemanticWeight == 70

\* IntentRecognizer.intent_patterns: each rule is an alternation of items
IntentPatterns ==
    [revenue_query |->
        << <<L("revenue"), L("earnings"), L("income"), L("sales"), L("money"),
             L("profit"), L("financial"), L("quarter"), L("year"), L("month")>>,
           <<L("how much"), L("what was"), L("total"), L("amount"), L("earned"),
             L("made")>> >>,
     customer_query |->
        << <<L("customer"), L("client"), L("user"), L("buyer"), L("purchaser")>>,
           <<L("how many"), L("count"), L("list"), L("show"), L("find")>> >>,
     product_query |->
        << <<L("product"), L("item"), L("goods"), L("service"), L("offering")>>,
           <<L("price"), L("cost"), L("inventory"), L("stock"), L("available")>> >>,
     greeting |->
        << <<L("hello"), L("hi"), L("hey"), L("greeting"), L("how are you"),
             L("good morning"), L("good afternoon"), L("good evening")>>,
           <<L("what's up"), L("sup"), L("yo"), L("greetings")>> >>,
     personal_question |->
        << <<L("who are you"), L("what's your name"), L("tell me about yourself"),
             L("what can you do")>>,
           <<L("your personality"), L("your traits"), L("about you")>> >>,
     gratitude |->
        << <<L("thank you"), L("thanks"), L("thx"), L("appreciate it"),
             L("grateful"), L("awesome"), L("great"), L("good job")>>,
           <<L("well done"), L("excellent"), L("fantastic"), L("amazing")>> >>,
     farewell |->
        << <<L("goodbye"), L("bye"), L("see you"), L("see ya"), L("take care"),
             L("farewell"), L("until next time")>>,
           <<L("have a good day"), L("have a nice day"), L("good night")>> >>,
     memory_query |->
        << <<LW("what is my ")>>, <<LW("what's my ")>>, <<LW("do you know my ")>>,
           <<LW("remember my ")>>, <<L("where do i live")>>,
           <<L("where am i from")>>, <<L("what's my location")>> >>,
     memory_store |->
        << <<LW("my name is ")>>, <<LW("i'm ")>>, <<LW("i am ")>>,
           <<LW("call me ")>>, <<WL(" is my name")>>,
           <<LW("my favorite color is ")>>, <<LW("i like ")>>, <<LW("i love ")>>,
           <<WL(" is my favorite color")>>, <<LN("i live in ")>>,
           <<LN("i'm from ")>>, <<LN("my location is ")>>, <<LN("i'm in ")>> >>,
     memory_manage |->
        << <<LW("forget my ")>>, <<L("forget what i told you")>>,
           <<LW("remove my ")>>, <<LW("delete my ")>>, <<LW("clear my ")>>,
           <<L("what do you remember")>>, <<L("what do you know about me")>>,
           <<L("show me what you remember")>>, <<L("my information")>> >>,
     general_chat |->
        << <<L("weather"), L("joke"), L("story"), L("fun"), L("entertainment"),
             L("how's it going"), L("what's new")>>,
           <<L("chat"), L("conversation"), L("talk"), L("discuss")>> >>]

\* the number of matches of all the rules of one intent
RECURSIVE MatchCount(_, _, _)
MatchCount(rules, n, low) ==
    IF n > Len(rules) THEN 0
    ELSE FindallCount(rules[n], low, 1) + MatchCount(rules, n + 1, low)

\* pattern_scores after the pattern loop: the intents with a match, in
\* dictionary order, as <<[intent, score]>>
RECURSIVE PatternScoresFrom(_, _)
PatternScoresFrom(low, n) ==
    IF n > Len(Intents) THEN <<>>
    ELSE LET score == MatchCount(IntentPatterns[Intents[n]], 1, low) * PatternWeight
         IN  (IF score > 0 THEN <<[intent |-> Intents[n], score |-> score]>>
              ELSE <<>>)
             \o PatternScoresFrom(low, n + 1)

PatternScores(text) == PatternScoresFrom(Lower(text), 1)

RECURSIVE IndexOfIntent(_, _, _)
IndexOfIntent(scores, intent, i) ==
    IF i > Len(scores) THEN 0
    ELSE IF scores[i].intent = intent THEN i
    ELSE IndexOfIntent(scores, intent, i + 1)

\* the semantic loop with the semantic score replacing the pattern score
RECURSIVE AddSemanticOverwrite(_, _, _, _)
AddSemanticOverwrite(scores, sims, n, done) ==
    IF n > done THEN scores
    ELSE LET intent == Intents[n]
             semantic_score == sims[intent] * SemanticWeight
             at == IndexOfIntent(scores, intent, 1)
         IN  AddSemanticOverwrite(
                 IF at > 0
                 THEN [scores EXCEPT ![at].score = semantic_score]
                 ELSE Append(scores, [intent |-> intent, score |-> semantic_score]),
                 sims, n + 1, done)

\* the semantic loop over the first `done` intents: an intent that has a
\* pattern score gets the semantic score added, another one is inserted
RECURSIVE AddSemantic(_, _, _, _)
AddSemantic(scores, sims, n, done) ==
    IF n > done THEN scores
    ELSE LET intent == Intents[n]
             semantic_score == sims[intent] * SemanticWeight
             at == IndexOfIntent(scores, intent, 1)
         IN  AddSemantic(
                 IF at > 0
                 THEN [scores EXCEPT ![at].score = scores[at].score + semantic_score]
                 ELSE Append(scores, [intent |-> intent, score |-> semantic_score]),
                 sims, n + 1, done)

\* pattern_scores when the best intent is determined.  The outcome of the
\* embedding capability is emb = [done, sims]: sims[i] is the best cosine
\* similarity of intent i's examples, and done is the number of intents the
\* loop got through before an encode call raised (0: the encoding of the
\* utterance raised; Len(Intents): nothing raised).
MergedScores(pattern_scores, model, emb) ==
    IF model THEN AddSemantic(pattern_scores, emb.sims, 1, emb.done)
    ELSE pattern_scores

\* max(pattern_scores.items(), key=score): the first item with the top score
RECURSIVE BestFrom(_, _, _)
BestFrom(scores, i, best) ==
    IF i > Len(scores) THEN best
    ELSE BestFrom(scores, i + 1,
                  IF scores[i].score > best.score THEN scores[i] ELSE best)

BestIntent(scores) == BestFrom(scores, 2, scores[1])

Min(a, b) == IF a <= b THEN a ELSE b

DefaultIntent == [intent |-> "general_chat", confidence |-> 500]

\* Decide without the threshold test
DecideNoThreshold(scores) ==
    IF Len(scores) > 0
    THEN [intent |-> BestIntent(scores).intent,
          confidence |-> Min(BestIntent(scores).score, 1000)]
    ELSE DefaultIntent

\* the last lines of recognize_intent returning the best guess whatever its
\* confidence is
DecideAtAnyConfidence(scores, threshold) ==
    IF Len(scores) > 0
    THEN [intent |-> BestIntent(scores).intent,
          confidence |-> Min(BestIntent(scores).score, 1000)]
    ELSE DefaultIntent

\* the last lines of recognize_intent when AppConfig.INTENT_THRESHOLD is
\* `threshold`
DecideAt(scores, threshold) ==
    IF Len(scores) > 0
    THEN LET best == BestIntent(scores)
             confidence == Min(best.score, 1000)
         IN  IF confidence >= threshold
             THEN [intent |-> best.intent, confidence |-> confidence]
             ELSE DefaultIntent
    ELSE DefaultIntent

\* the last lines of recognize_intent
Decide(scores) == DecideAt(scores, INTENT_THRESHOLD)

\* IntentRecognizer.recognize_intent
RecognizeIntent(pattern_scores, model, emb) ==
    Decide(MergedScores(pattern_scores, model, emb))

(***************************************************************************)
(* Response validation, fallbacks, database answers and conversation       *)
(* history: src/nlp.py, ChatbotNLP                                         *)
(***************************************************************************)
\* AppConfig.MAX_HISTORY_LENGTH
MAX_HISTORY_LENGTH == 10

\* AppConfig.MIN_RESPONSE_LENGTH
MIN_RESPONSE_LENGTH == 10

\* AppConfig.MAX_RESPONSE_LENGTH
MAX_RESPONSE_LENGTH == 500

\* AppConfig.ENABLE_RESPONSE_VALIDATION
ENABLE_RESPONSE_VALIDATION == TRUE

InappropriatePhrases ==
    {"waifu", "hero that's needed", "who is this", "tell me about your",
     "i am the", "i am a", "i am", "i'm the", "i'm a"}

PersonalKeywords == {"yara", "assistant", "ai", "help", "friendly", "helpful"}

\* _is_valid_response with the length test made on the untrimmed candidate
IsValidResponseRawLength(response, low_input, intent, enabled) ==
    \/ ~enabled
    \/ \E response_lower \in {Lower(response)} :
          /\ ~(response = "" \/ Len(response) < MIN_RESPONSE_LENGTH)
          /\ \A phrase \in InappropriatePhrases : ~Contains(response_lower, phrase)
          /\ ~(/\ intent = "personal_question"
               /\ Contains(low_input, "who are you")
               /\ \A keyword \in PersonalKeywords : ~Contains(response_lower, keyword))
          /\ ~(Len(response) > MAX_RESPONSE_LENGTH)

\* _is_valid_response without the test of the answer to "who are you"
IsValidResponseNoIdentityTest(response, low_input, intent, enabled) ==
    \/ ~enabled
    \/ \E stripped \in {Strip(response)}, response_lower \in {Lower(response)} :
          /\ ~(response = "" \/ Len(stripped) < MIN_RESPONSE_LENGTH)
          /\ \A phrase \in InappropriatePhrases : ~Contains(response_lower, phrase)
          /\ ~(Len(stripped) > MAX_RESPONSE_LENGTH)

\* ChatbotNLP._is_valid_response; low_input is user_input.lower(), enabled is
\* AppConfig.ENABLE_RESPONSE_VALIDATION.  Each conjunct is one `return False`
\* that is not taken.
IsValidResponse(response, low_input, intent, enabled) ==
    \/ ~enabled
    \/ \E stripped \in {Strip(response)}, response_lower \in {Lower(response)} :
          /\ ~(response = "" \/ Len(stripped) < MIN_RESPONSE_LENGTH)
          /\ \A phrase \in InappropriatePhrases : ~Contains(response_lower, phrase)
          /\ ~(/\ intent = "personal_question"
               /\ Contains(low_input, "who are you")
               /\ \A keyword \in PersonalKeywords : ~Contains(response_lower, keyword))
          /\ ~(Len(stripped) > MAX_RESPONSE_LENGTH)

\* _get_fallback_response: fallback_responses
FallbackResponses ==
    [revenue_query |-> "I'm sorry, I couldn't retrieve the revenue information at the moment. Please try again later or contact our support team.",
     customer_query |-> "I'm unable to access customer data right now. Please check back later or reach out to our team for assistance.",
     product_query |-> "I'm having trouble accessing product information. Please try again later or contact our support team.",
     greeting |-> "Hi there! I'm Yara, and I'm so excited to meet you! How can I help you today?",
     personal_question |-> "I'm Yara, your friendly AI assistant! I'm here to help with conversations, answer questions, and provide insights from your data. I love being helpful and making our chats enjoyable!",
     gratitude |-> "You're very welcome! I'm so glad I could help! It makes me happy when I can be useful to you.",
     farewell |-> "Goodbye! It was wonderful chatting with you! Take care and come back anytime - I'll be here ready to help!",
     memory_query |-> "I'm not sure I understood that question. Could you rephrase it or ask me something else?",
     memory_store |-> "I'm not sure I understood that. Could you rephrase it or ask me something else?",
     memory_manage |-> "I'm not sure I understood that request. Could you rephrase it or ask me something else?",
     general_chat |-> "I'm not sure I understood that, could you rephrase?"]

\* _get_fallback_response: enhanced_fallbacks['personal_question'], in order
EnhancedFallbacks ==
    <<[pattern |-> "who are you",
       response |-> "I'm Yara, your friendly AI assistant! I'm here to help with conversations, answer questions, and provide insights from your data. I love being helpful and making our chats enjoyable!"],
      [pattern |-> "what's your name",
       response |-> "My name is Yara! I'm your friendly AI assistant, and I'm excited to help you with whatever you need!"],
      [pattern |-> "tell me about yourself",
       response |-> "I'm Yara, a friendly and enthusiastic AI assistant! I love helping people, answering questions, and making conversations enjoyable. I'm here to assist you with both general chat and data insights!"],
      [pattern |-> "what can you do",
       response |-> "I can help you with conversations, answer questions, provide insights from your data, and be a friendly chat companion! I'm Yara, and I'm excited to assist you!"]>>

RECURSIVE EnhancedFrom(_, _)
EnhancedFrom(low_input, n) ==
    IF n > Len(EnhancedFallbacks) THEN None
    ELSE IF Contains(low_input, EnhancedFallbacks[n].pattern)
    THEN EnhancedFallbacks[n].response
    ELSE EnhancedFrom(low_input, n + 1)

\* ChatbotNLP._get_fallback_response
GetFallbackResponse(intent, low_input) ==
    IF intent = "personal_question" /\ EnhancedFrom(low_input, 1) /= None
    THEN EnhancedFrom(low_input, 1)
    ELSE IF intent \in DOMAIN FallbackResponses THEN FallbackResponses[intent]
    ELSE FallbackResponses["general_chat"]

\* _force_fallback_for_intent without the branch for gratitude and farewell
ForceFallbackNoFarewell(intent, low_input, connected) ==
    IF intent = "personal_question" THEN GetFallbackResponse(intent, low_input)
    ELSE IF intent = "greeting" THEN GetFallbackResponse(intent, low_input)
    ELSE IF intent \in {"memory_query", "memory_store", "memory_manage"}
    THEN GetFallbackResponse(intent, low_input)
    ELSE IF ~connected /\ intent \in DbIntents
    THEN GetFallbackResponse(intent, low_input)
    ELSE None

\* _force_fallback_for_intent without the test of the database connection
ForceFallbackConnectedOrNot(intent, low_input, connected) ==
    IF intent = "personal_question" THEN GetFallbackResponse(intent, low_input)
    ELSE IF intent = "greeting" THEN GetFallbackResponse(intent, low_input)
    ELSE IF intent \in {"gratitude", "farewell"}
    THEN GetFallbackResponse(intent, low_input)
    ELSE IF intent \in {"memory_query", "memory_store", "memory_manage"}
    THEN GetFallbackResponse(intent, low_input)
    ELSE None

\* ChatbotNLP._force_fallback_for_intent
ForceFallbackForIntent(intent, low_input, connected) ==
    IF intent = "personal_question" THEN GetFallbackResponse(intent, low_input)
    ELSE IF intent = "greeting" THEN GetFallbackResponse(intent, low_input)
    ELSE IF intent \in {"gratitude", "farewell"}
    THEN GetFallbackResponse(intent, low_input)
    ELSE IF intent \in {"memory_query", "memory_store", "memory_manage"}
    THEN GetFallbackResponse(intent, low_input)
    ELSE IF ~connected /\ intent \in DbIntents
    THEN GetFallbackResponse(intent, low_input)
    ELSE None

\* number formatting: amounts are counted in cents
Digit(d) == At(DigitChars, d + 1)

RECURSIVE Decimal(_)
Decimal(n) == IF n < 10 THEN Digit(n) ELSE Decimal(n \div 10) \o Digit(n % 10)

\* format(n, ','): groups of three digits
RECURSIVE Grouped(_)
Grouped(n) ==
    IF n < 1000 THEN Decimal(n)
    ELSE Grouped(n \div 1000) \o "," \o Digit((n \div 100) % 10)
         \o Digit((n \div 10) % 10) \o Digit(n % 10)

Cents(c) == "." \o Digit((c \div 10) % 10) \o Digit(c % 10)

\* format(x, ',.2f') and format(x, '.2f')
MoneyGrouped(cents) == Grouped(cents \div 100) \o Cents(cents % 100)

MoneyPlain(cents) == Decimal(cents \div 100) \o Cents(cents % 100)

\* the period named in a revenue question
Period(low_input) ==
    IF Contains(low_input, "quarter") THEN "last_quarter"
    ELSE IF Contains(low_input, "year") THEN "last_year"
    ELSE IF Contains(low_input, "month") THEN "current_month"
    ELSE "last_quarter"

PeriodName(period) ==
    IF period = "last_quarter" THEN "last quarter"
    ELSE IF period = "last_year" THEN "last year"
    ELSE IF period = "current_month" THEN "this month"
    ELSE period

\* a column that is NULL in the row, None in the dictionary
Null == -1

\* ChatbotNLP._format_revenue_response; formatting None raises TypeError
FormatRevenueResponse(data, period) ==
    IF Null \in {data.total_revenue, data.transaction_count, data.average_transaction}
    THEN "<TypeError>"
    ELSE "Great question! Here's what I found in our " \o PeriodName(period)
         \o " data:\n\n"
         \o "* **Total Revenue**: $" \o MoneyGrouped(data.total_revenue) \o "\n"
         \o "* **Number of Transactions**: " \o Grouped(data.transaction_count) \o "\n"
         \o "* **Average Transaction**: $" \o MoneyPlain(data.average_transaction)
         \o "\n\n"
         \o "I hope this information is helpful! Is there anything specific about these numbers you'd like me to explain?"

\* ChatbotNLP._format_customer_response
FormatCustomerResponse(data) ==
    "Awesome! I'm happy to share that we currently have **" \o Grouped(Len(data))
    \o " wonderful customers** in our database!\n\n"
    \o "That's quite a community we're building! Is there anything specific about our customers you'd like to know more about?"

\* ChatbotNLP._format_product_response
FormatProductResponse(data) ==
    "Fantastic! I'm excited to tell you about our product offerings!\n\n"
    \o "We currently offer **" \o Grouped(Len(data)) \o " amazing products** across **"
    \o Decimal(Cardinality({data[i].category : i \in 1..Len(data)}))
    \o " different categories**!\n\n"
    \o "That's quite a diverse selection! Would you like me to tell you more about any specific category or product?"

\* What the backing store does when it is asked:
\*   kind "raise"  the query raises
\*   kind "none"   the query returns None
\*   kind "malformed"  the query returns data of another shape
\*   kind "data"   get_revenue_data returns the record `revenue`,
\*                 get_customer_data / get_product_data return the list `rows`
NoRevenue ==
    [total_revenue |-> Null, transaction_count |-> Null, average_transaction |-> Null]

NotAsked == [kind |-> "not_asked", revenue |-> NoRevenue, rows |-> <<>>]

\* `if revenue_data:` / `if customer_data:` -- a record with its three columns
\* is true, a list is true when it has a row
HasData(intent, db) ==
    /\ db.kind = "data"
    /\ (intent /= "revenue_query" => Len(db.rows) > 0)

\* an exception raised inside a try block
Exception == "<Exception>"

IsException(x) == x \in {Exception, "<TypeError>"}

\* the try block of _handle_database_query: the formatted response, None, or
\* the exception that the query or the formatting raises.  Data of kind
\* "malformed" is true but has not the shape the formatting reads.
DatabaseQueryBody(intent, low_input, db) ==
    IF db.kind = "raise" THEN Exception
    ELSE IF db.kind = "malformed" THEN Exception
    ELSE IF ~HasData(intent, db) THEN None
    ELSE IF intent = "revenue_query"
    THEN FormatRevenueResponse(db.revenue, Period(low_input))
    ELSE IF intent = "customer_query" THEN FormatCustomerResponse(db.rows)
    ELSE IF intent = "product_query" THEN FormatProductResponse(db.rows)
    ELSE None

\* _handle_database_query without its except clause
HandleDatabaseQueryUncaught(intent, low_input, db) ==
    DatabaseQueryBody(intent, low_input, db)

\* ChatbotNLP._handle_database_query: the formatted response, or None
HandleDatabaseQuery(intent, low_input, db) ==
    IF IsException(DatabaseQueryBody(intent, low_input, db)) THEN None
    ELSE DatabaseQueryBody(intent, low_input, db)

PersonalityInstruction ==
    "You are Yara, a friendly, enthusiastic, and helpful AI assistant. Always be warm, encouraging, and use emojis to make conversations enjoyable. Be genuinely interested in helping users and show enthusiasm for their questions."

\* generate_response: full_input = "\n".join(input_parts); context is None
\* when the request carries no session_id
FullInput(user_input, context, memory_context) ==
    (IF context /= None /\ context /= "" THEN "Context: " \o context \o "\n" ELSE "")
    \o (IF memory_context /= "" THEN "Memory: " \o memory_context \o "\n" ELSE "")
    \o PersonalityInstruction \o "\n"
    \o "User: " \o user_input \o "\n"
    \o "Yara:"

\* the last position at or before i where marker stands in text, 0 if none
RECURSIVE LastIndexFrom(_, _, _)
LastIndexFrom(text, marker, i) ==
    IF i < 1 THEN 0
    ELSE IF IsAt(text, marker, i) THEN i
    ELSE LastIndexFrom(text, marker, i - 1)

\* text.split(marker)[-1]
AfterLast(text, marker) ==
    IF LastIndexFrom(text, marker, Len(text)) = 0 THEN text
    ELSE From(text, LastIndexFrom(text, marker, Len(text)) + Len(marker))

\* generate_response: the part of generated_text that is Yara's response
ExtractYaraResponse(generated_text) ==
    IF LastIndexFrom(generated_text, "Yara:", Len(generated_text)) /= 0
    THEN Strip(AfterLast(generated_text, "Yara:"))
    ELSE Strip(AfterLast(generated_text, "Assistant:"))

\* add_to_history that drops the newest turn when the history is full
AddToHistoryDropNewest(history, user_input, response) ==
    IF Len(history) + 1 > MAX_HISTORY_LENGTH THEN history
    ELSE Append(history, [user |-> user_input, assistant |-> response,
                          timestamp |-> None])

\* add_to_history recording the exchange without the response text
AddToHistoryNoResponse(history, user_input, response) ==
    IF Len(history) + 1 > MAX_HISTORY_LENGTH
    THEN Append(Tail(history), [user |-> user_input, assistant |-> "",
                                timestamp |-> None])
    ELSE Append(history, [user |-> user_input, assistant |-> "",
                          timestamp |-> None])

\* ChatbotNLP.add_to_history
AddToHistory(history, user_input, response) ==
    IF Len(history) + 1 > MAX_HISTORY_LENGTH
    THEN Append(Tail(history), [user |-> user_input, assistant |-> response,
                                timestamp |-> None])
    ELSE Append(history, [user |-> user_input, assistant |-> response,
                          timestamp |-> None])

RECURSIVE ExchangeLines(_, _)
ExchangeLines(history, i) ==
    IF i > Len(history) THEN ""
    ELSE "User: " \o history[i].user \o "\n" \o "Yara: " \o history[i].assistant
         \o (IF i < Len(history) THEN "\n" ELSE "")
         \o ExchangeLines(history, i + 1)

\* get_context rendering the whole history
GetContextWholeHistory(history) ==
    IF Len(history) = 0 THEN "" ELSE ExchangeLines(history, 1)

\* ChatbotNLP.get_context: the last three exchanges
GetContext(history) ==
    IF Len(history) = 0 THEN ""
    ELSE ExchangeLines(history, IF Len(history) > 3 THEN Len(history) - 2 ELSE 1)

\* `if memory_response:` with the mutation that only store acknowledgements
\* count as an answer
MemoryAnsweredOnlyStores(mem) ==
    mem.response /= None /\ mem.response /= "" /\ mem.action = "store"

\* generate_response: `if memory_response:`
MemoryAnswered(mem) == mem.response /= None /\ mem.response /= ""

\* generate_response reaches recognize_intent
ClassifierInvoked(mem) == ~MemoryAnswered(mem)

\* generate_response reaches _handle_database_query, which asks the store
DatabaseInvoked(mem, first, connected) ==
    /\ ~MemoryAnswered(mem)
    /\ connected
    /\ first.intent \in DbIntents

\* the generator reached without the test of the confidence
GeneratorInvokedAnyConfidence(mem, first, db_response, low_input, connected, loaded) ==
    /\ ~MemoryAnswered(mem)
    /\ db_response = None
    /\ ForceFallbackForIntent(first.intent, low_input, connected) = None
    /\ loaded

\* generate_response reaches self.generator(full_input, ...)
GeneratorInvoked(mem, first, db_response, low_input, connected, loaded) ==
    /\ ~MemoryAnswered(mem)
    /\ db_response = None
    /\ ~(first.confidence < INTENT_THRESHOLD)
    /\ ForceFallbackForIntent(first.intent, low_input, connected) = None
    /\ loaded

\* generate_response calling the generator a second time after a failure
GeneratorCallsWithRetry(asked, gen) ==
    IF ~asked THEN 0
    ELSE IF gen.kind \in {"raise", "empty", "malformed"} THEN 2
    ELSE 1

\* the number of calls of self.generator in one generate_response: the call
\* stands once in the body, in no loop, and its except clause only logs
GeneratorCalls(asked, gen) == IF asked THEN 1 ELSE 0

\* What the generator does when it is called with full_input:
\*   kind "raise"  it raises
\*   kind "empty"  it returns no sequence
\*   kind "malformed"  it returns a sequence without generated_text
\*   kind "echo"   generated_text is full_input followed by `text`
\*   kind "bare"   generated_text is `text`
GeneratedText(gen, full_input) ==
    IF gen.kind = "echo" THEN full_input \o gen.text ELSE gen.text

\* generate_response answering with the fallback as soon as the database
\* query of a database intent gave no response
GenerateResponseStopsAfterDatabase(low_input, mem, first, db_response, connected, loaded, candidate) ==
    IF MemoryAnswered(mem)
    THEN [response |-> mem.response, branch |-> "memory"]
    ELSE IF db_response /= None /\ db_response /= ""
    THEN [response |-> db_response, branch |-> "database"]
    ELSE IF connected /\ first.intent \in DbIntents
    THEN [response |-> GetFallbackResponse(first.intent, low_input),
          branch |-> "fallback"]
    ELSE IF first.confidence < INTENT_THRESHOLD
    THEN [response |-> GetFallbackResponse(first.intent, low_input),
          branch |-> "low_confidence"]
    ELSE IF ForceFallbackForIntent(first.intent, low_input, connected) /= None
    THEN [response |-> ForceFallbackForIntent(first.intent, low_input, connected),
          branch |-> "forced"]
    ELSE IF loaded /\ candidate /= None
    THEN (IF IsValidResponse(candidate, low_input, first.intent,
                             ENABLE_RESPONSE_VALIDATION)
          THEN [response |-> candidate, branch |-> "generated"]
          ELSE [response |-> GetFallbackResponse(first.intent, low_input),
                branch |-> "rejected"])
    ELSE [response |-> GetFallbackResponse(first.intent, low_input),
          branch |-> "fallback"]

\* generate_response returning the generated text without validating it
GenerateResponseUnvalidated(low_input, mem, first, db_response, connected, loaded, candidate) ==
    IF MemoryAnswered(mem)
    THEN [response |-> mem.response, branch |-> "memory"]
    ELSE IF db_response /= None /\ db_response /= ""
    THEN [response |-> db_response, branch |-> "database"]
    ELSE IF first.confidence < INTENT_THRESHOLD
    THEN [response |-> GetFallbackResponse(first.intent, low_input),
          branch |-> "low_confidence"]
    ELSE IF ForceFallbackForIntent(first.intent, low_input, connected) /= None
    THEN [response |-> ForceFallbackForIntent(first.intent, low_input, connected),
          branch |-> "forced"]
    ELSE IF loaded /\ candidate /= None
    THEN [response |-> candidate, branch |-> "generated"]
    ELSE [response |-> GetFallbackResponse(first.intent, low_input),
          branch |-> "fallback"]

\* ChatbotNLP.generate_response after the collaborators have answered:
\* mem is what process_input returned, first what recognize_intent returned,
\* db_response what _handle_database_query returned and candidate the
\* yara_response extracted from the generated text (None without one);
\* threshold is AppConfig.INTENT_THRESHOLD
GenerateResponseAt(low_input, mem, first, db_response, connected, loaded, candidate, threshold) ==
    IF MemoryAnswered(mem)
    THEN [response |-> mem.response, branch |-> "memory"]
    ELSE IF db_response /= None /\ db_response /= ""
    THEN [response |-> db_response, branch |-> "database"]
    ELSE IF first.confidence < threshold
    THEN [response |-> GetFallbackResponse(first.intent, low_input),
          branch |-> "low_confidence"]
    ELSE IF ForceFallbackForIntent(first.intent, low_input, connected) /= None
    THEN [response |-> ForceFallbackForIntent(first.intent, low_input, connected),
          branch |-> "forced"]
    ELSE IF loaded /\ candidate /= None
    THEN (IF IsValidResponse(candidate, low_input, first.intent,
                             ENABLE_RESPONSE_VALIDATION)
          THEN [response |-> candidate, branch |-> "generated"]
          ELSE [response |-> GetFallbackResponse(first.intent, low_input),
                branch |-> "rejected"])
    ELSE [response |-> GetFallbackResponse(first.intent, low_input),
          branch |-> "fallback"]

\* ChatbotNLP.generate_response with the configured threshold
GenerateResponse(low_input, mem, first, db_response, connected, loaded, candidate) ==
    GenerateResponseAt(low_input, mem, first, db_response, connected, loaded,
                       candidate, INTENT_THRESHOLD)

(***************************************************************************)
(* The observation of the last operation.  Every operation writes all the  *)
(* fields; the ones it does not use keep the values of NoObs.              *)
(***************************************************************************)
NoEmb == [done |-> 0, sims |-> [i \in IntentSet |-> 0]]

\* the generator has not been called
NotGenerated == [kind |-> "not_asked", text |-> ""]

NoObs ==
    [op |-> "init", input |-> "", session |-> None, key |-> None, value |-> "",
     response |-> None, action |-> "none", found |-> FALSE,
     intent |-> None, confidence |-> 0, scores |-> <<>>, emb |-> NoEmb,
     candidate |-> None, enabled |-> TRUE, valid |-> FALSE,
     context |-> None, prompt |-> None, branch |-> "none",
     used_intent |-> None, used_confidence |-> 0,
     classifier_calls |-> 0, db_calls |-> 0, generator_calls |-> 0,
     facts_before |-> 0, lines_before |-> 0,
     db |-> NotAsked, gen |-> NotGenerated, database_used |-> FALSE,
     threshold |-> INTENT_THRESHOLD]

\* the sessions whose requests stored the keys, after process_input has
\* answered a request of `session`
OwnerAfter(own, out, session) ==
    LET kept == SelectSeq(own, LAMBDA e : HasKey(out.memory, e.key))
    IN  IF out.action = "store"
        THEN DictSet(kept, out.key, [key |-> out.key, session |-> session])
        ELSE kept

(***************************************************************************)
(* The operations of the session memory, called on the module-level        *)
(* memory_manager.                                                         *)
(***************************************************************************)
\* the utterances the memory rules are exercised with
MemoryUtterances ==
    {"my name is Sam", "my name is Sam\n", "call me Alex",
     "My favorite color is Red", "i like blue",
     "I live in New York", "i live in  ",
     "what is my name?", "My name", "what is my name??",
     "what's my favorite color", "where do i live?",
     "forget my name", "forget my color", "forget my a", "clear my nameplate",
     "remove my location",
     "Forget what I told you", "forget my name, what i told you",
     "forget my name and forget what i told you",
     "I live in a house so FORGET WHAT I TOLD YOU about it",
     "i live in forget my name", "forget my information",
     "what do you remember?", "i live in my information",
     "hello"}

\* the utterances the intent recognizer is exercised with
IntentUtterances ==
    {"hello", "xyzzy", "thanks", "who are you", "tell me a joke",
     "what was our revenue last quarter", "How many customers do we have",
     "revenue earnings income sales", "the weather story joke",
     "show me the price of this product item", "what is my name?",
     "goodbye bye bye"}

\* the messages the chat endpoint is exercised with
ChatUtterances ==
    {"my name is Sam", "what is my name?", "Forget what I told you",
     "what was our revenue last quarter",
     "how many customers and clients do we have",
     "price and cost of this product item",
     "tell me a fun story or a joke about the weather",
     "xyzzy", "hello hi hey",
     "tell me about yourself, what can you do",
     "thanks, that was awesome and great", "goodbye bye bye",
     "i love tea, i love jam, i love pie",
     "what is my age, what is my job, what is my plan"}

Utterances == MemoryUtterances \cup IntentUtterances \cup ChatUtterances

\* the arguments SessionMemory.store is called with directly
DirectStores ==
    {[key |-> "name", value |-> "Alex", source |-> "user_input"],
     [key |-> "name", value |-> "", source |-> "extracted"],
     [key |-> "nickname", value |-> "Al", source |-> "extracted"]}

DirectKeys == KnownKeys

\* user_input.lower(), and what the rules find in it, for each utterance
LowTable == [u \in Utterances |-> Lower(u)]

MemoryTable == [u \in Utterances |-> MemoryParse(LowTable[u])]

\* MemoryManager.process_input
ProcessInput(user_input, m, md) == ProcessParsed(MemoryTable[user_input], m, md)

InitMemory ==
    /\ memory = <<>>
    /\ memory_metadata = <<>>
    /\ chat_history = <<>>
    /\ appended = <<>>
    /\ owner = <<>>
    /\ db_connected = FALSE
    /\ generator_loaded = FALSE
    /\ sentence_model = FALSE
    /\ last = NoObs

\* memory_manager.process_input(user_input)
DoProcessInput ==
    /\ \E u \in MemoryUtterances :
        \E out \in {ProcessInput(u, memory, memory_metadata)} :
            /\ memory' = out.memory
            /\ memory_metadata' = out.metadata
            /\ owner' = OwnerAfter(owner, out, None)
            /\ last' = [NoObs EXCEPT !.op = "process_input", !.input = u,
                                     !.key = out.key,
                                     !.response = out.response,
                                     !.action = out.action]
    /\ UNCHANGED <<chat_history, appended, db_connected, generator_loaded,
                   sentence_model>>

\* memory_manager.session_memory.store(key, value, source)
DoStore ==
    /\ \E a \in DirectStores :
        /\ memory' = StoreMemory(memory, a.key, a.value)
        /\ memory_metadata' = StoreMetadata(memory_metadata, a.key, a.source)
        /\ owner' = DictSet(owner, a.key, [key |-> a.key, session |-> None])
        /\ last' = [NoObs EXCEPT !.op = "store", !.key = a.key, !.value = a.value]
    /\ UNCHANGED <<chat_history, appended, db_connected, generator_loaded,
                   sentence_model>>

\* memory_manager.session_memory.remove(key)
DoRemove ==
    /\ \E k \in DirectKeys :
        /\ memory' = IF HasKey(memory, k) THEN DictDel(memory, k) ELSE memory
        /\ memory_metadata' = IF HasKey(memory, k) THEN DictDel(memory_metadata, k)
                              ELSE memory_metadata
        /\ owner' = IF HasKey(memory, k) THEN DictDel(owner, k) ELSE owner
        /\ last' = [NoObs EXCEPT !.op = "remove", !.key = k,
                                 !.found = HasKey(memory, k)]
    /\ UNCHANGED <<chat_history, appended, db_connected, generator_loaded,
                   sentence_model>>

\* memory_manager.session_memory.clear(), memory_manager.reset_session()
DoClear ==
    /\ memory' = <<>>
    /\ memory_metadata' = <<>>
    /\ owner' = <<>>
    /\ last' = [NoObs EXCEPT !.op = "clear"]
    /\ UNCHANGED <<chat_history, appended, db_connected, generator_loaded,
                   sentence_model>>

NextMemory == DoProcessInput \/ DoStore \/ DoRemove \/ DoClear

SpecMemory == InitMemory /\ [][NextMemory]_vars

(***************************************************************************)
(* recognize_intent as a function of the utterance and of what the         *)
(* embedding capability does                                               *)
(***************************************************************************)
IntentTable == [u \in Utterances |-> PatternScores(u)]

\* best cosine similarities, in tenths
SimLevels == {-2, 0, 5, 10}

\* the intents one of which stands out in a similarity profile
FocusIntents == {"revenue_query", "greeting", "memory_manage", "general_chat"}

Embeddings ==
    {[done |-> d, sims |-> [i \in IntentSet |-> IF i = b THEN hi ELSE lo]] :
        d \in 0..Len(Intents), b \in FocusIntents, hi \in SimLevels, lo \in SimLevels}

\* a call of recognize_intent that has not run yet
InitIntent ==
    /\ memory = <<>>
    /\ memory_metadata = <<>>
    /\ chat_history = <<>>
    /\ appended = <<>>
    /\ owner = <<>>
    /\ db_connected = FALSE
    /\ generator_loaded = FALSE
    /\ sentence_model \in BOOLEAN
    /\ \E u \in IntentUtterances, emb \in Embeddings :
        last = [NoObs EXCEPT !.op = "call_recognize_intent", !.input = u,
                             !.emb = emb]

\* nlp_engine.intent_recognizer.recognize_intent(text)
DoRecognize ==
    /\ last.op = "call_recognize_intent"
    /\ LET scores == IntentTable[last.input]
           r == RecognizeIntent(scores, sentence_model, last.emb)
       IN  last' = [last EXCEPT !.op = "recognize_intent",
                                !.scores = MergedScores(scores, sentence_model,
                                                        last.emb),
                                !.intent = r.intent,
                                !.confidence = r.confidence]
    /\ UNCHANGED <<memory, memory_metadata, chat_history, appended, owner,
                   db_connected, generator_loaded, sentence_model>>

NextIntent == DoRecognize

SpecIntent == InitIntent /\ [][NextIntent]_vars

(***************************************************************************)
(* The conversation history of the module-level nlp_engine                 *)
(***************************************************************************)
\* how many turns are appended between two clears
MaxAppends == 12

HistoryTurns ==
    {[user |-> "hello", assistant |-> FallbackResponses["greeting"]],
     [user |-> "xyzzy", assistant |-> FallbackResponses["general_chat"]]}

InitHistory ==
    /\ memory = <<>>
    /\ memory_metadata = <<>>
    /\ chat_history = <<>>
    /\ appended = <<>>
    /\ owner = <<>>
    /\ db_connected = FALSE
    /\ generator_loaded = FALSE
    /\ sentence_model = FALSE
    /\ last = NoObs

\* nlp_engine.add_to_history(user_input, response)
DoAddToHistory ==
    /\ Len(appended) < MaxAppends
    /\ \E t \in HistoryTurns :
        /\ chat_history' = AddToHistory(chat_history, t.user, t.assistant)
        /\ appended' = Append(appended, [user |-> t.user, assistant |-> t.assistant,
                                         session |-> None])
        /\ last' = [NoObs EXCEPT !.op = "add_to_history", !.input = t.user,
                                 !.response = t.assistant]
    /\ UNCHANGED <<memory, memory_metadata, owner, db_connected, generator_loaded,
                   sentence_model>>

\* clear_history without the call of memory_manager.reset_session()
ClearHistoryKeepsMemory ==
    /\ chat_history' = <<>>
    /\ appended' = <<>>
    /\ UNCHANGED <<memory, memory_metadata, owner, db_connected, generator_loaded,
                   sentence_model>>

\* nlp_engine.clear_history(): the history and the session memory
ClearHistory ==
    /\ chat_history' = <<>>
    /\ memory' = <<>>
    /\ memory_metadata' = <<>>
    /\ owner' = <<>>
    /\ appended' = <<>>
    /\ UNCHANGED <<db_connected, generator_loaded, sentence_model>>

DoClearHistory ==
    /\ ClearHistory
    /\ last' = [NoObs EXCEPT !.op = "clear_history"]

NextHistory == DoAddToHistory \/ DoClearHistory

SpecHistory == InitHistory /\ [][NextHistory]_vars

(***************************************************************************)
(* _is_valid_response as a function of the candidate, the utterance, the   *)
(* intent and the configured switch                                        *)
(***************************************************************************)
Candidates ==
    {"", "ok", "   short   ", "\n\n  a b c  \t ", Rep("x", 9), Rep("x", 10),
     "I'd love to help you with that today!",
     "I AM THE one who knocks on your door",
     "Tell me about your day, it sounds fun",
     "Well, I'm a big fan of sunny weather",
     "She is my favourite waifu of them all",
     "Yara is always here to help you out",
     "Just a program running on a server.",
     Rep("x", 500), Rep("x", 501), " " \o Rep("x", 500) \o "\n",
     Rep(" ", 20) \o "a fine text"}

ValidatorInputs == {"who are you", "Who are you, really?", "hello"}

ValidatorIntents == {"personal_question", "general_chat", "greeting"}

\* Strip and Lower of each candidate
CandidateTable ==
    [c \in Candidates |-> [trimmed |-> Len(Strip(c)), lower |-> Lower(c)]]

\* a call of _is_valid_response that has not run yet
InitValid ==
    /\ memory = <<>>
    /\ memory_metadata = <<>>
    /\ chat_history = <<>>
    /\ appended = <<>>
    /\ owner = <<>>
    /\ db_connected = FALSE
    /\ generator_loaded = FALSE
    /\ sentence_model = FALSE
    /\ \E c \in Candidates, u \in ValidatorInputs, i \in ValidatorIntents,
          e \in BOOLEAN :
        last = [NoObs EXCEPT !.op = "call_is_valid_response", !.candidate = c,
                             !.input = u, !.intent = i, !.enabled = e]

\* nlp_engine._is_valid_response(response, user_input, intent)
DoValidate ==
    /\ last.op = "call_is_valid_response"
    /\ \E low_input \in {Lower(last.input)} :
        last' = [last EXCEPT !.op = "is_valid_response",
                             !.valid = IsValidResponse(last.candidate, low_input,
                                                       last.intent, last.enabled)]
    /\ UNCHANGED <<memory, memory_metadata, chat_history, appended, owner,
                   db_connected, generator_loaded, sentence_model>>

NextValid == DoValidate

SpecValid == InitValid /\ [][NextValid]_vars

(***************************************************************************)
(* The chat endpoints, served by the module-level nlp_engine,              *)
(* memory_manager and db_manager                                           *)
(***************************************************************************)
\* how many turns are served between two clears
MaxTurns == 1

\* ChatRequest.session_id
Sessions == {None, "A", "B"}

\* a request without a session_id and a request with one
ChatSessions == {None, "A"}

\* what the embedding model does in one call of recognize_intent
ChatEmbeddings ==
    {[done |-> Len(Intents), sims |-> [i \in IntentSet |-> 0]],
     \* encode raises before the first intent is compared
     [done |-> 0, sims |-> [i \in IntentSet |-> 10]],
     [done |-> Len(Intents),
      sims |-> [i \in IntentSet |-> IF i = "general_chat" THEN 10 ELSE 0]],
     [done |-> Len(Intents),
      sims |-> [i \in IntentSet |-> IF i = "memory_manage" THEN 10 ELSE 0]]}

EmbeddingRuns(invoked, model) ==
    IF invoked /\ model THEN ChatEmbeddings ELSE {NoEmb}

\* the messages of the conversations around clear_history
ClearUtterances ==
    {"my name is Sam", "My favorite color is Red", "I live in New York",
     "what is my name?", "what's my favorite color", "where do i live?",
     "what do you remember?"}

\* the messages of ClearUtterances that ask for one fact
ClearQueries == {"what is my name?", "what's my favorite color", "where do i live?"}

\* recognize_intent for each message and each run of the embedding model
RecognizeTable ==
    [u \in ChatUtterances \cup ClearUtterances |->
        [model \in BOOLEAN |->
            [emb \in ChatEmbeddings \cup {NoEmb} |->
                RecognizeIntent(IntentTable[u], model, emb)]]]

NotRecognized == [intent |-> None, confidence |-> 0]

\* what the backing store answers to the query of an intent
DatabaseRuns(intent) ==
    IF intent = "revenue_query"
    THEN {[kind |-> "none", revenue |-> NoRevenue, rows |-> <<>>],
          [kind |-> "data", rows |-> <<>>,
           revenue |-> [total_revenue |-> 123456789, transaction_count |-> 1500,
                        average_transaction |-> 82304]],
          \* the aggregates over a period without transactions
          [kind |-> "data", rows |-> <<>>,
           revenue |-> [total_revenue |-> Null, transaction_count |-> 0,
                        average_transaction |-> Null]],
          [kind |-> "malformed", revenue |-> NoRevenue, rows |-> <<>>]}
    ELSE {[kind |-> "none", revenue |-> NoRevenue, rows |-> <<>>],
          [kind |-> "malformed", revenue |-> NoRevenue, rows |-> <<>>],
          [kind |-> "raise", revenue |-> NoRevenue, rows |-> <<>>],
          [kind |-> "data", revenue |-> NoRevenue, rows |-> <<>>],
          [kind |-> "data", revenue |-> NoRevenue,
           rows |-> <<[category |-> "toys"], [category |-> "books"],
                      [category |-> "toys"]>>]}

\* what the generator answers to a prompt
GeneratorRuns ==
    {[kind |-> "raise", text |-> ""],
     [kind |-> "empty", text |-> ""],
     [kind |-> "malformed", text |-> ""],
     [kind |-> "echo", text |-> " I'd love to help you with that today!"],
     [kind |-> "echo", text |-> " ok"],
     [kind |-> "echo", text |-> " I am a big fan of sunny weather stories!"],
     [kind |-> "echo",
      text |-> " Sure!\nUser: thanks\nYara: You are most welcome, my friend!"],
     [kind |-> "bare", text |-> "Assistant: Here is a fun story about the weather."]}

Init ==
    /\ memory = <<>>
    /\ memory_metadata = <<>>
    /\ chat_history = <<>>
    /\ appended = <<>>
    /\ owner = <<>>
    /\ db_connected \in BOOLEAN
    /\ generator_loaded \in BOOLEAN
    /\ sentence_model \in BOOLEAN
    /\ last = NoObs

\* chat_endpoint(request): get_context, generate_response, the second
\* recognize_intent, add_to_history and the ChatResponse, for a request drawn
\* from sessions x utterances and a generator that answers as in generator_runs
Chat(sessions, utterances, generator_runs) ==
    /\ \E session \in sessions :
       \E context \in {IF session /= None THEN GetContext(chat_history) ELSE None} :
       \E u \in utterances :
       \E mem \in {ProcessInput(u, memory, memory_metadata)} :
       \E first \in {IF ClassifierInvoked(mem)
                     THEN RecognizeTable[u][sentence_model][emb1]
                     ELSE NotRecognized :
                        emb1 \in EmbeddingRuns(ClassifierInvoked(mem),
                                               sentence_model)} :
       \E db \in (IF DatabaseInvoked(mem, first, db_connected)
                  THEN DatabaseRuns(first.intent) ELSE {NotAsked}) :
       \E db_response \in {IF DatabaseInvoked(mem, first, db_connected)
                           THEN HandleDatabaseQuery(first.intent, LowTable[u], db)
                           ELSE None} :
       \E asked \in {GeneratorInvoked(mem, first, db_response, LowTable[u],
                                      db_connected, generator_loaded)} :
       \E full_input \in {IF asked
                          THEN FullInput(u, context, GetContextForNlp(mem.memory))
                          ELSE None} :
       \E gen \in (IF asked THEN generator_runs ELSE {NotGenerated}) :
       \E candidate \in {IF gen.kind \in {"echo", "bare"}
                         THEN ExtractYaraResponse(GeneratedText(gen, full_input))
                         ELSE None} :
       \E r \in {GenerateResponse(LowTable[u], mem, first, db_response,
                                  db_connected, generator_loaded, candidate)} :
       \E second \in {RecognizeTable[u][sentence_model][emb2] :
                         emb2 \in EmbeddingRuns(TRUE, sentence_model)} :
            /\ memory' = mem.memory
            /\ memory_metadata' = mem.metadata
            /\ owner' = OwnerAfter(owner, mem, session)
            /\ chat_history' = AddToHistory(chat_history, u, r.response)
            /\ appended' = Append(appended, [user |-> u, assistant |-> r.response,
                                             session |-> session])
            /\ last' = [NoObs EXCEPT
                          !.op = "chat", !.input = u, !.session = session,
                          !.context = context,
                          !.key = mem.key, !.action = mem.action,
                          !.response = r.response, !.branch = r.branch,
                          !.used_intent = first.intent,
                          !.used_confidence = first.confidence,
                          !.classifier_calls = IF ClassifierInvoked(mem) THEN 1 ELSE 0,
                          !.db_calls = IF db = NotAsked THEN 0 ELSE 1,
                          !.generator_calls = GeneratorCalls(asked, gen),
                          !.db = db, !.gen = gen,
                          !.prompt = full_input, !.candidate = candidate,
                          !.intent = second.intent,
                          !.confidence = second.confidence,
                          !.database_used = (db_connected
                                             /\ second.intent \in DbIntents)]
    /\ UNCHANGED <<db_connected, generator_loaded, sentence_model>>

\* a request to the chat endpoint
DoChat ==
    /\ Len(appended) < MaxTurns
    /\ Chat(ChatSessions, ChatUtterances, GeneratorRuns)

\* clear_history_endpoint(session_id): whatever the session_id is, the one
\* history and the one session memory are cleared
ClearHistoryEndpoint(sessions) ==
    /\ \E session \in sessions :
        last' = [NoObs EXCEPT !.op = "clear_history_endpoint", !.session = session]
    /\ ClearHistory

\* a request to the clear endpoint
DoClearHistoryEndpoint == ClearHistoryEndpoint(ChatSessions)

Next == DoChat \/ DoClearHistoryEndpoint

Spec == Init /\ [][Next]_vars

(***************************************************************************)
(* Conversations of several sessions with the one engine: the requests     *)
(* tell facts, ask for them, forget them and chat                          *)
(***************************************************************************)
\* how many turns the sessions have together between two clears
MaxSessionTurns == 2

SessionUtterances ==
    {"my name is Sam", "what is my name?", "Forget what I told you",
     "tell me a fun story or a joke about the weather"}

SessionGeneratorRuns ==
    {[kind |-> "raise", text |-> ""],
     [kind |-> "echo", text |-> " I'd love to help you with that today!"]}

InitSessions ==
    /\ memory = <<>>
    /\ memory_metadata = <<>>
    /\ chat_history = <<>>
    /\ appended = <<>>
    /\ owner = <<>>
    /\ db_connected = FALSE
    /\ generator_loaded \in BOOLEAN
    /\ sentence_model = FALSE
    /\ last = NoObs

\* a request of one of the sessions to the chat endpoint
DoSessionChat ==
    /\ Len(appended) < MaxSessionTurns
    /\ Chat(Sessions, SessionUtterances, SessionGeneratorRuns)

\* a request of one of the sessions, or of none, to the clear endpoint
DoSessionClear == ClearHistoryEndpoint(Sessions)

NextSessions == DoSessionChat \/ DoSessionClear

SpecSessions == InitSessions /\ [][NextSessions]_vars

(***************************************************************************)
(* Longer conversations with the generator loaded: requests with and       *)
(* without a session_id that chat or greet, so that the history grows      *)
(* beyond the three turns get_context renders.                             *)
(***************************************************************************)
MaxContextTurns == 5

ContextUtterances ==
    {"tell me a fun story or a joke about the weather", "hello hi hey"}

ContextGeneratorRuns ==
    {[kind |-> "echo", text |-> " I'd love to help you with that today!"],
     [kind |-> "bare", text |-> "ok"]}

InitContext ==
    /\ memory = <<>>
    /\ memory_metadata = <<>>
    /\ chat_history = <<>>
    /\ appended = <<>>
    /\ owner = <<>>
    /\ db_connected = FALSE
    /\ generator_loaded = TRUE
    /\ sentence_model = FALSE
    /\ last = NoObs

\* a request to the chat endpoint in a longer conversation
DoContextChat ==
    /\ Len(appended) < MaxContextTurns
    /\ Chat(ChatSessions, ContextUtterances, ContextGeneratorRuns)

\* a request to the clear endpoint in a longer conversation
DoContextClear == ClearHistoryEndpoint({None})

NextContext == DoContextChat \/ DoContextClear

SpecContext == InitContext /\ [][NextContext]_vars

(***************************************************************************)
(* recognize_intent and generate_response under other values of            *)
(* AppConfig.INTENT_THRESHOLD, with an empty memory store, the database    *)
(* not connected and the generator not loaded.                             *)
(***************************************************************************)
\* values of INTENT_THRESHOLD, in thousandths
Thresholds == {300, 500, 600, 700, 1100}

ThresholdEmbeddings ==
    {emb \in Embeddings : emb.done \in {0, 4, Len(Intents)}}

\* a call of generate_response that has not run yet
InitThreshold ==
    /\ memory = <<>>
    /\ memory_metadata = <<>>
    /\ chat_history = <<>>
    /\ appended = <<>>
    /\ owner = <<>>
    /\ db_connected = FALSE
    /\ generator_loaded = FALSE
    /\ sentence_model \in BOOLEAN
    /\ \E u \in IntentUtterances, emb \in ThresholdEmbeddings, t \in Thresholds :
        last = [NoObs EXCEPT !.op = "call_generate_response", !.input = u,
                             !.emb = emb, !.threshold = t]

\* nlp_engine.generate_response(user_input) with INTENT_THRESHOLD set to
\* last.threshold; the memory store is read and not written, as the
\* utterances neither store nor forget
DoRespondAtThreshold ==
    /\ last.op = "call_generate_response"
    /\ \E mem \in {ProcessInput(last.input, memory, memory_metadata)} :
       \E first \in {IF ClassifierInvoked(mem)
                     THEN DecideAt(MergedScores(IntentTable[last.input],
                                                sentence_model, last.emb),
                                   last.threshold)
                     ELSE NotRecognized} :
       \E r \in {GenerateResponseAt(LowTable[last.input], mem, first, None,
                                    db_connected, generator_loaded, None,
                                    last.threshold)} :
            /\ mem.memory = memory
            /\ last' = [last EXCEPT !.op = "generate_response",
                                    !.action = mem.action,
                                    !.response = r.response,
                                    !.branch = r.branch,
                                    !.used_intent = first.intent,
                                    !.used_confidence = first.confidence,
                                    !.classifier_calls =
                                        IF ClassifierInvoked(mem) THEN 1 ELSE 0]
    /\ UNCHANGED <<memory, memory_metadata, chat_history, appended, owner,
                   db_connected, generator_loaded, sentence_model>>

NextThreshold == DoRespondAtThreshold

SpecThreshold == InitThreshold /\ [][NextThreshold]_vars

(***************************************************************************)
(* Facts told, asked for and summarized around calls of clear_history      *)
(***************************************************************************)
\* how many turns are made between two clears
MaxClearTurns == 3

InitClear ==
    /\ memory = <<>>
    /\ memory_metadata = <<>>
    /\ chat_history = <<>>
    /\ appended = <<>>
    /\ owner = <<>>
    /\ db_connected = FALSE
    /\ generator_loaded = TRUE
    /\ sentence_model = FALSE
    /\ last = NoObs

\* a request to the chat endpoint
DoClearChat ==
    /\ Len(appended) < MaxClearTurns
    /\ Chat({None}, ClearUtterances, SessionGeneratorRuns)

\* nlp_engine.clear_history(); the observation keeps how many facts and how
\* many lines the two stores held when it was called
DoClearStores ==
    /\ ClearHistory
    /\ last' = [NoObs EXCEPT !.op = "clear_history",
                             !.facts_before = Len(memory),
                             !.lines_before = Len(chat_history)]

NextClear == DoClearChat \/ DoClearStores

SpecClear == InitClear /\ [][NextClear]_vars

(***************************************************************************)
(* Properties                                                              *)
(***************************************************************************)
\* the highest score of a non-empty score map
TopScore(scores) ==
    CHOOSE x \in {scores[i].score : i \in 1..Len(scores)} :
        \A i \in 1..Len(scores) : scores[i].score <= x

\* C1: recognize_intent returns one of the eleven intents and a confidence
\* between 0 and 1, and it returns exactly (general_chat, 0.5) whenever the
\* merged score map is empty or its best score, capped at 1.0, is below
\* INTENT_THRESHOLD -- with the embedding model present, absent or failing.
ClassifierContract ==
    last.op = "recognize_intent" =>
        /\ last.intent \in IntentSet
        /\ last.confidence >= 0
        /\ last.confidence <= 1000
        /\ (\/ Len(last.scores) = 0
            \/ Min(TopScore(last.scores), 1000) < INTENT_THRESHOLD)
           => /\ last.intent = "general_chat"
              /\ last.confidence = 500

\* a best guess below the threshold, found while the embedding model failed
\* half way through the intents, was replaced by the flat default
ClassifierDiscardsLowGuess ==
    /\ last.op = "recognize_intent"
    /\ sentence_model
    /\ last.emb.done \in 1..(Len(Intents) - 1)
    /\ Len(last.scores) > 0
    /\ TopScore(last.scores) < INTENT_THRESHOLD
    /\ TopScore(last.scores) > 500
    /\ BestIntent(last.scores).intent /= "general_chat"
    /\ last.intent = "general_chat"
    /\ last.confidence = 500

\* which rule groups have a rule that matches the utterance, and the key of
\* the query rules that match
MatchedGroups(low) ==
        [forget  |-> \E n \in 1..Len(ForgetPatterns) :
                        SearchItem(ForgetPatterns[n], low).ok,
         summary |-> \E n \in 1..Len(SummaryPatterns) :
                        SearchItem(SummaryPatterns[n], low).ok,
         store   |-> \E k \in DOMAIN StorePatterns : \E n \in 1..Len(StorePatterns[k]) :
                        SearchAnchored(StorePatterns[k][n], low).ok,
         query   |-> {k \in DOMAIN QueryPatterns : \E n \in 1..Len(QueryPatterns[k]) :
                        SearchAnchored(QueryPatterns[k][n], low).ok},
         tokens  |-> {SearchItem(ForgetPatterns[n], low).group :
                        n \in {i \in 1..Len(ForgetPatterns) :
                                  SearchItem(ForgetPatterns[i], low).ok}},
         clearall |-> Contains(low, "forget what i told you")]

GroupsTable == [u \in Utterances |-> MatchedGroups(LowTable[u])]

\* every entry of m2 is an entry of m1
SubStore(m2, m1) ==
    \A i \in 1..Len(m2) : HasKey(m1, m2[i].key) /\ Retrieve(m1, m2[i].key) = m2[i].value

ForgetTexts(m, token) ==
    {ForgetAllText, ForgetNothingText(token)} \cup {ForgetKeyText(k) : k \in KeysOf(m)}

\* C2: process_input tries the rule groups in the order forget, summary,
\* store, query and answers with the first group that matches: the action is
\* that group's, and no later group's effect (a store write, a summary, a
\* query answer) happens, also when a later group matches the utterance too.
MemoryPriority ==
    [][last'.op = "process_input" =>
        LET g == GroupsTable[last'.input]
        IN  /\ g.forget =>
                /\ last'.action = "forget"
                /\ SubStore(memory', memory)
                /\ \E token \in g.tokens :
                      last'.response \in ForgetTexts(memory, token)
            /\ (~g.forget /\ g.summary) =>
                /\ last'.action = "summary"
                /\ memory' = memory
                /\ last'.response = GetMemorySummary(memory)
            /\ (~g.forget /\ ~g.summary /\ g.store) =>
                /\ last'.action = "store"
                /\ HasKey(memory', last'.key)
                /\ last'.response = StoreAck(last'.key, Retrieve(memory', last'.key))
            /\ (~g.forget /\ ~g.summary /\ ~g.store /\ g.query /= {}) =>
                /\ last'.action = "query"
                /\ memory' = memory
            /\ (~g.forget /\ ~g.summary /\ ~g.store /\ g.query = {}) =>
                /\ last'.action = "none"
                /\ last'.response = None
                /\ memory' = memory
    ]_vars

\* an utterance that matches a store rule and a forget rule has removed the
\* name and stored nothing
ForgetShadowedStore ==
    /\ last.op = "process_input"
    /\ GroupsTable[last.input].forget
    /\ GroupsTable[last.input].store
    /\ last.action = "forget"
    /\ last.response = ForgetKeyText("name")
    /\ Len(memory) > 0
    /\ ~HasKey(memory, "name")
    /\ ~HasKey(memory, "location")

\* C3: an utterance that contains "forget what i told you", in any letter case
\* and with any text around it, is answered with the forget-everything
\* confirmation and action 'forget', and leaves the store without slots.
ForgetEverything ==
    (last.op = "process_input" /\ GroupsTable[last.input].clearall) =>
        /\ last.action = "forget"
        /\ last.response = ForgetAllText
        /\ memory = <<>>
        /\ memory_metadata = <<>>

\* the phrase in capitals inside a longer utterance, which also matches a
\* store rule, has emptied the store
ForgotEverythingInCapitals ==
    /\ last.op = "process_input"
    /\ last.input = "I live in a house so FORGET WHAT I TOLD YOU about it"
    /\ GroupsTable[last.input].store
    /\ last.response = ForgetAllText
    /\ memory = <<>>

\* the steps that store to key k, and the steps that remove it
StoresTo(k) ==
    \/ last'.op = "store" /\ last'.key = k
    \/ last'.op = "process_input" /\ last'.action = "store" /\ last'.key = k

Removes(k) ==
    \/ last'.op = "remove" /\ last'.key = k /\ last'.found
    \/ last'.op = "clear"
    \/ last'.op = "process_input" /\ last'.response = ForgetAllText
    \/ last'.op = "process_input" /\ last'.response = ForgetKeyText(k)

QueryFor(k) == last'.op = "process_input" /\ k \in GroupsTable[last'.input].query

HistoryBound ==
    /\ Len(chat_history) <= MAX_HISTORY_LENGTH
    /\ Len(chat_history) = Min(Len(appended), MAX_HISTORY_LENGTH)
    /\ \A i \in 1..Len(chat_history) :
          LET turn == appended[Len(appended) - Len(chat_history) + i]
          IN  /\ chat_history[i].user = turn.user
              /\ chat_history[i].assistant = turn.assistant

\* MAX_HISTORY_LENGTH + 1 turns were appended to an empty history and the
\* first of them, which differs from the second, is the one that is gone
EvictedOldestTurn ==
    /\ last.op = "add_to_history"
    /\ Len(appended) = MAX_HISTORY_LENGTH + 1
    /\ Len(chat_history) = MAX_HISTORY_LENGTH
    /\ appended[1].user /= appended[2].user
    /\ chat_history[1].user = appended[2].user
    /\ chat_history[MAX_HISTORY_LENGTH].user = appended[MAX_HISTORY_LENGTH + 1].user

\* C7: with validation enabled, _is_valid_response returns False for every
\* candidate whose trimmed length is below MIN_RESPONSE_LENGTH or above
\* MAX_RESPONSE_LENGTH and for every candidate that contains a blacklisted
\* fragment in any letter case, whatever the intent and the utterance are.
ValidatorRejects ==
    (last.op = "is_valid_response" /\ last.enabled) =>
        LET c == CandidateTable[last.candidate]
        IN  (\/ c.trimmed < MIN_RESPONSE_LENGTH
             \/ c.trimmed > MAX_RESPONSE_LENGTH
             \/ \E phrase \in InappropriatePhrases : Contains(c.lower, phrase))
            => ~last.valid

\* a candidate of eleven characters, five of them after trimming, and without
\* a blacklisted fragment was rejected
RejectedPaddedShortCandidate ==
    /\ last.op = "is_valid_response"
    /\ last.enabled
    /\ last.candidate = "   short   "
    /\ Len(last.candidate) >= MIN_RESPONSE_LENGTH
    /\ CandidateTable[last.candidate].trimmed < MIN_RESPONSE_LENGTH
    /\ ~last.valid

\* the backing store returned a revenue record, or a list with a row
NonEmptyData(intent, db) ==
    /\ db.kind = "data"
    /\ (intent = "revenue_query" \/ Len(db.rows) > 0)

\* the templated response for the data the backing store returned
Templated(intent, low_input, db) ==
    IF intent = "revenue_query"
    THEN "Great question! Here's what I found in our "
         \o PeriodName(Period(low_input)) \o " data:"
    ELSE IF intent = "customer_query" THEN "Awesome! I'm happy to share that we currently have **"
    ELSE "Fantastic! I'm excited to tell you about our product offerings!"

\* C8: in a turn that the memory engine does not answer, with the database
\* connected, the recognized intent one of revenue_query, customer_query and
\* product_query, and non-empty data returned by the backing store,
\* generate_response returns the templated database response: the generator
\* is not invoked and no static fallback is returned, whatever the
\* confidence is.
DatabaseAnswerFirst ==
    (/\ last.op = "chat"
     /\ last.action = "none"
     /\ db_connected
     /\ last.used_intent \in DbIntents
     /\ NonEmptyData(last.used_intent, last.db))
    => /\ last.branch = "database"
       /\ StartsWith(last.response,
                     Templated(last.used_intent, LowTable[last.input], last.db))
       /\ last.generator_calls = 0

\* the backing store returned the revenue record of a period without
\* transactions, and the turn was answered with generated text
RevenueRecordNotFormatted ==
    /\ last.op = "chat"
    /\ db_connected
    /\ last.used_intent = "revenue_query"
    /\ last.db.kind = "data"
    /\ last.db.revenue.transaction_count = 0
    /\ last.db.revenue.total_revenue = Null
    /\ last.db_calls = 1
    /\ last.generator_calls = 1
    /\ last.branch = "generated"

\* C9: whenever the memory rule engine returns a response for the utterance,
\* generate_response returns exactly that response, and within
\* generate_response the intent classifier, the backing store and the
\* generator are not invoked in that turn.
MemoryShortCircuit ==
    [][last'.op = "chat" =>
        LET out == ProcessInput(last'.input, memory, memory_metadata)
        IN  out.response /= None =>
                /\ last'.response = out.response
                /\ last'.classifier_calls = 0
                /\ last'.db_calls = 0
                /\ last'.generator_calls = 0
    ]_vars

\* a question for the name was answered by the memory engine while the
\* database, the generator and the embedding model were all available
MemoryAnsweredAlone ==
    /\ last.op = "chat"
    /\ last.input = "what is my name?"
    /\ last.action = "query"
    /\ last.response = "I don't know yet! What's your name?"
    /\ db_connected /\ generator_loaded /\ sentence_model
    /\ last.classifier_calls = 0
    /\ last.db_calls = 0
    /\ last.generator_calls = 0

\* the session whose request stored key k
OwnerOf(own, k) == own[IndexOfKey(own, k, 1)].session

\* the turns of the history that get_context renders
ContextWindow(turns) ==
    {i \in 1..Len(turns) : i > Len(turns) - 3}

\* C10: the memory store and the conversation history of a session are read
\* and mutated only by turns that carry that session's key: a request leaves
\* the facts stored by other sessions as they are, a memory answer states only
\* a fact that the request's own session stored, and the generation context
\* of a request holds only turns of its own session.
SessionIsolation ==
    [][last'.op = "chat" =>
        /\ \A i \in 1..Len(owner) :
              owner[i].session /= last'.session =>
                  /\ HasKey(memory', owner[i].key)
                  /\ Retrieve(memory', owner[i].key) = Retrieve(memory, owner[i].key)
        /\ (last'.action = "query" /\ HasKey(memory, last'.key)) =>
              OwnerOf(owner, last'.key) = last'.session
        /\ last'.context /= None =>
              \A i \in ContextWindow(appended) :
                  appended[i].session = last'.session
    ]_vars

\* session B asked for the name that session A had told and got it
AnsweredWithAnotherSessionsFact ==
    /\ last.op = "chat"
    /\ last.session = "B"
    /\ last.input = "what is my name?"
    /\ last.response = "Your name is sam."
    /\ Len(owner) = 1
    /\ owner[1] = [key |-> "name", session |-> "A"]

\* C11: generate_response never raises: whatever the utterance is, and with
\* the embedding model, the backing store and the generator absent, raising,
\* or returning empty or malformed data, the turn returns a non-empty response
\* string.
NeverRaises ==
    last.op = "chat" =>
        /\ last.response /= None
        /\ ~IsException(last.response)
        /\ Len(last.response) > 0

\* the backing store raised, then the generator raised, and the turn was
\* answered with the static customer fallback
AnsweredAfterTwoFailures ==
    /\ last.op = "chat"
    /\ last.used_intent = "customer_query"
    /\ last.db.kind = "raise"
    /\ last.gen.kind = "raise"
    /\ last.db_calls = 1
    /\ last.generator_calls = 1
    /\ last.response = FallbackResponses["customer_query"]

\* C12: every turn, on every branch of the decision chain, appends exactly
\* one entry to the conversation history: the entries that were there stay in
\* their order (the oldest one leaves when the history is full), and the new
\* last entry holds the utterance and the response text returned to the caller.
AppendsOneExchange ==
    [][last'.op = "chat" =>
          /\ last'.branch \in {"memory", "database", "low_confidence", "forced",
                                "generated", "rejected", "fallback"}
          /\ Len(chat_history') =
                 IF Len(chat_history) < MAX_HISTORY_LENGTH
                 THEN Len(chat_history) + 1 ELSE MAX_HISTORY_LENGTH
          /\ chat_history'[Len(chat_history')].user = last'.input
          /\ chat_history'[Len(chat_history')].assistant = last'.response
          /\ \A i \in 1..(Len(chat_history') - 1) :
                 chat_history'[i] =
                    chat_history[i + Len(chat_history) + 1 - Len(chat_history')]
    ]_vars

\* a turn whose generated text was rejected: the history holds the one
\* exchange of the turn, with the static fallback that was returned
RejectedTurnRecorded ==
    /\ last.op = "chat"
    /\ last.branch = "rejected"
    /\ last.generator_calls = 1
    /\ last.response = FallbackResponses["general_chat"]
    /\ chat_history = <<[user |-> last.input, assistant |-> last.response,
                         timestamp |-> None]>>

\* the intents for which generation is never attempted
ForcedIntents ==
    {"personal_question", "greeting", "gratitude", "farewell",
     "memory_query", "memory_store", "memory_manage"}

\* the static texts of _get_fallback_response for an intent
StaticFallbacks(intent) ==
    {FallbackResponses[intent]}
       \cup (IF intent = "personal_question"
             THEN {EnhancedFallbacks[n].response : n \in 1..Len(EnhancedFallbacks)}
             ELSE {})

\* the last turn was not answered by the memory engine and its intent was
\* recognized with a confidence of at least the threshold
ConfidentTurn ==
    /\ last.op = "chat"
    /\ last.classifier_calls = 1
    /\ last.used_confidence >= INTENT_THRESHOLD

\* C13: in a turn that reaches the forced-fallback check (not answered by the
\* memory engine or by the database, confidence at least the threshold), if
\* the intent is one of the seven forced intents, or a database intent while
\* the database is not connected, the response is the static fallback for that
\* intent and the generator is not invoked.
ForcedFallback ==
    (/\ ConfidentTurn
     /\ \/ last.used_intent \in ForcedIntents
        \/ last.used_intent \in DbIntents /\ ~db_connected)
    => /\ last.response \in StaticFallbacks(last.used_intent)
       /\ last.generator_calls = 0
       /\ last.db_calls = 0

\* a farewell with the generator loaded: answered with the static farewell
FarewellForced ==
    /\ ConfidentTurn
    /\ generator_loaded
    /\ last.used_intent = "farewell"
    /\ last.response = FallbackResponses["farewell"]
    /\ last.generator_calls = 0

\* C14: in a turn not answered by the memory engine, if the confidence the
\* classifier returned is below INTENT_THRESHOLD, the response is the static
\* fallback for the returned intent and the generator is not invoked.
LowConfidenceFallback ==
    (/\ last.op = "chat"
     /\ last.classifier_calls = 1
     /\ last.used_confidence < INTENT_THRESHOLD)
    => /\ last.response = FallbackResponses[last.used_intent]
       /\ last.generator_calls = 0

\* an utterance no pattern matches, with the generator loaded
LowConfidenceTurn ==
    /\ last.op = "chat"
    /\ last.classifier_calls = 1
    /\ last.used_confidence < INTENT_THRESHOLD
    /\ generator_loaded
    /\ last.response = FallbackResponses["general_chat"]
    /\ last.generator_calls = 0

\* the last turn went past the memory engine, the database branch, the
\* confidence test and the forced-fallback check
ReachedGeneration ==
    /\ ConfidentTurn
    /\ last.used_intent \notin ForcedIntents
    /\ ~(last.used_intent \in DbIntents /\ ~db_connected)
    /\ \/ last.db_calls = 0
       \/ HandleDatabaseQuery(last.used_intent, LowTable[last.input], last.db) = None

\* C15: when the generator is invoked, the turn returns the extracted
\* generated text if the validator accepts it; if the validator rejects it, or
\* the generator raises or returns nothing, the turn returns the static
\* fallback for the recognized intent, as it does when the generator is not
\* loaded.
GenerationOutcome ==
    ReachedGeneration =>
        /\ last.generator_calls = (IF generator_loaded THEN 1 ELSE 0)
        /\ IF /\ generator_loaded
              /\ last.candidate /= None
              /\ IsValidResponse(last.candidate, LowTable[last.input],
                                 last.used_intent, ENABLE_RESPONSE_VALIDATION)
           THEN last.response = last.candidate
           ELSE last.response = FallbackResponses[last.used_intent]

\* the generator returned a text the validator rejects
GeneratedTextRejected ==
    /\ ReachedGeneration
    /\ last.generator_calls = 1
    /\ last.candidate /= None
    /\ ~IsValidResponse(last.candidate, LowTable[last.input], last.used_intent,
                        ENABLE_RESPONSE_VALIDATION)
    /\ last.response = FallbackResponses[last.used_intent]
    /\ last.response /= last.candidate

\* C16: in every turn the generator is invoked at most once, and a generation
\* that raised, returned nothing or returned a malformed result is followed by
\* the fallback response.
SingleGeneration ==
    last.op = "chat" =>
        /\ last.generator_calls <= 1
        /\ (last.gen.kind \in {"raise", "empty", "malformed"}
               => /\ last.generator_calls = 1
                  /\ last.response = FallbackResponses[last.used_intent])

\* the generator raised in a turn of general conversation
GenerationFailedOnce ==
    /\ last.op = "chat"
    /\ last.gen.kind = "raise"
    /\ last.used_intent = "general_chat"
    /\ last.generator_calls = 1
    /\ last.response = FallbackResponses["general_chat"]

\* C17: a request to the clear endpoint that carries a session_id clears the
\* history of that session only: the turns and the stored facts of the other
\* sessions are unchanged; a request without a session_id clears all history.
\* The other sessions are those of the requests that carried another id.
ClearsOnlyOwnSession ==
    [][last'.op = "clear_history_endpoint" =>
          IF last'.session = None
          THEN chat_history' = <<>>
          ELSE /\ \A i \in 1..Len(appended) :
                     appended[i].session \notin {None, last'.session} =>
                         \E j \in 1..Len(chat_history') :
                             /\ chat_history'[j].user = appended[i].user
                             /\ chat_history'[j].assistant = appended[i].assistant
               /\ \A i \in 1..Len(appended) :
                     appended[i].session = last'.session =>
                         \A j \in 1..Len(chat_history') :
                             chat_history'[j].user /= appended[i].user
               /\ \A i \in 1..Len(owner) :
                     owner[i].session \notin {None, last'.session} =>
                         /\ HasKey(memory', owner[i].key)
                         /\ Retrieve(memory', owner[i].key)
                               = Retrieve(memory, owner[i].key)
    ]_vars

\* C18: the database_used field of a chat response is true exactly when the
\* response text of the turn was produced from backing-store data, and false
\* when it came from the memory engine, a static fallback or the generator.
DatabaseUsedMeansDatabaseAnswer ==
    last.op = "chat" => (last.database_used <=> last.branch = "database")

\* the store gave no revenue record and the turn was answered with the static
\* revenue fallback, yet the response is reported as made with the database
DatabaseUsedOnFallback ==
    /\ last.op = "chat"
    /\ last.used_intent = "revenue_query"
    /\ last.db.kind = "none"
    /\ last.db_calls = 1
    /\ ~generator_loaded
    /\ last.response = FallbackResponses["revenue_query"]
    /\ last.database_used

\* C19: an utterance that matches a keyed forget rule (forget, remove, delete
\* or clear my <token>) and does not contain the forget-everything phrase,
\* whose token resolves to a stored key by substring containment in either
\* direction, removes exactly one slot, one that the token resolves to; every
\* other slot keeps its key and value.
TargetedForget ==
    [][last'.op = "process_input" =>
        LET g == GroupsTable[last'.input]
            resolved == {k \in KeysOf(memory) :
                            \E token \in g.tokens : KeyMatches(k, token)}
        IN  (g.forget /\ ~g.clearall /\ resolved /= {}) =>
                /\ last'.action = "forget"
                /\ Len(memory') = Len(memory) - 1
                /\ SubStore(memory', memory)
                /\ \E k \in resolved : ~HasKey(memory', k)
    ]_vars

\* a keyed forget utterance without the forget-everything phrase was answered
\* with the forget-everything confirmation
KeyedForgetClearedEverything ==
    /\ last.op = "process_input"
    /\ last.input = "forget my name, what i told you"
    /\ GroupsTable[last.input].tokens = {"name"}
    /\ ~GroupsTable[last.input].clearall
    /\ last.response = ForgetAllText
    /\ memory = <<>>

\* C20: a query utterance for key k that the query rules answer states the
\* stored value when k exists in the store, and gives the key-specific prompt
\* to supply it when k is absent; the presence of the key alone decides.
QueryByPresence ==
    [][\A k \in {"name", "favorite_color", "location"} :
          (last'.op = "process_input" /\ last'.action = "query" /\ last'.key = k) =>
              /\ memory' = memory
              /\ last'.response = IF HasKey(memory, k)
                                  THEN QueryAnswer(k, Retrieve(memory, k))
                                  ELSE QueryUnknown(k)
    ]_vars

\* the location is stored, with an empty value, and the query for it was
\* answered with the prompt for an absent key
StoredLocationUnknown ==
    /\ last.op = "process_input"
    /\ last.action = "query"
    /\ last.key = "location"
    /\ HasKey(memory, "location")
    /\ Retrieve(memory, "location") = ""
    /\ last.response = QueryUnknown("location")

\* C21: when the embedding model is absent, or an encode call raises at any
\* point of the scoring (on the utterance or on the examples of any intent),
\* recognize_intent returns exactly the decision computed from the pattern
\* scores alone.
SemanticDegradation ==
    (/\ last.op = "recognize_intent"
     /\ ~sentence_model \/ last.emb.done < Len(Intents))
    => /\ last.intent = Decide(IntentTable[last.input]).intent
       /\ last.confidence = Decide(IntentTable[last.input]).confidence

\* no pattern matches the utterance; the encoding of the examples of a later
\* intent raised after the greeting examples had scored 1.0, and the
\* utterance was recognized as a greeting with confidence 0.7
PartialSemanticScoreKept ==
    /\ last.op = "recognize_intent"
    /\ sentence_model
    /\ last.input = "xyzzy"
    /\ IntentTable[last.input] = <<>>
    /\ last.emb.done \in 4..(Len(Intents) - 1)
    /\ last.intent = "greeting"
    /\ last.confidence = 700

\* C22: _is_valid_response returns True for every candidate when validation
\* is disabled; when it is enabled it returns True exactly when none of these
\* holds: the trimmed length is below MIN_RESPONSE_LENGTH, the trimmed length
\* is above MAX_RESPONSE_LENGTH, the candidate contains a blacklisted fragment
\* (in any letter case), or the intent is personal_question, the utterance
\* contains "who are you" and the candidate contains no identity keyword.
ValidatorCharacterization ==
    last.op = "is_valid_response" =>
        LET c == CandidateTable[last.candidate]
            too_short == c.trimmed < MIN_RESPONSE_LENGTH
            too_long == c.trimmed > MAX_RESPONSE_LENGTH
            blacklisted == \E phrase \in InappropriatePhrases :
                              Contains(c.lower, phrase)
            off_identity == /\ last.intent = "personal_question"
                            /\ Contains(Lower(last.input), "who are you")
                            /\ \A keyword \in PersonalKeywords :
                                  ~Contains(c.lower, keyword)
        IN  last.valid <=>
               (\/ ~last.enabled
                \/ ~(too_short \/ too_long \/ blacklisted \/ off_identity))

\* a candidate of acceptable length without a blacklisted fragment was
\* rejected as an answer to "Who are you, really?": it has no identity keyword
IdentityAnswerRejected ==
    /\ last.op = "is_valid_response"
    /\ last.enabled
    /\ last.intent = "personal_question"
    /\ last.input = "Who are you, really?"
    /\ last.candidate = "Just a program running on a server."
    /\ ~last.valid

\* the score of an intent in a score map, 0 when the map has no entry for it
ScoreOf(scores, intent) ==
    IF IndexOfIntent(scores, intent, 1) > 0
    THEN scores[IndexOfIntent(scores, intent, 1)].score
    ELSE 0

\* the position of an intent in the order of the semantic loop
PositionOf(intent) == CHOOSE n \in 1..Len(Intents) : Intents[n] = intent

\* C23: the merged score of an intent is 0.3 times its number of pattern
\* matches plus 0.7 times the best cosine similarity of its examples; an
\* intent that only one of the two scorers scored keeps that scorer's value,
\* and an intent that neither scored has no entry.  Whenever recognize_intent
\* returns another result than the default, the returned intent has the
\* highest merged score of all intents and the returned confidence is that
\* score capped at 1.0.
ScoreFusion ==
    last.op = "recognize_intent" =>
        /\ \A intent \in IntentSet :
              LET pattern == ScoreOf(IntentTable[last.input], intent)
                  scored == /\ sentence_model
                            /\ PositionOf(intent) <= last.emb.done
                  semantic == IF scored THEN last.emb.sims[intent] * SemanticWeight
                              ELSE 0
              IN  /\ (IndexOfIntent(last.scores, intent, 1) > 0)
                        <=> (pattern > 0 \/ scored)
                  /\ ScoreOf(last.scores, intent) = pattern + semantic
        /\ [intent |-> last.intent, confidence |-> last.confidence] /= DefaultIntent
              => /\ ScoreOf(last.scores, last.intent) = TopScore(last.scores)
                 /\ IndexOfIntent(last.scores, last.intent, 1) > 0
                 /\ last.confidence = Min(TopScore(last.scores), 1000)

\* three pattern matches (0.9) and a best similarity of 1.0 (0.7) merged to
\* 1.6 for revenue_query, which was returned with the confidence capped
FusedAndCapped ==
    /\ last.op = "recognize_intent"
    /\ sentence_model
    /\ last.emb.done = Len(Intents)
    /\ last.input = "what was our revenue last quarter"
    /\ ScoreOf(IntentTable[last.input], "revenue_query") = 3 * PatternWeight
    /\ last.emb.sims["revenue_query"] = 10
    /\ ScoreOf(last.scores, "revenue_query") = 1600
    /\ last.intent = "revenue_query"
    /\ last.confidence = 1000

\* the last min(3, n) turns of a history of n turns
RecentTurns(history) ==
    SubSeq(history, Len(history) - Min(3, Len(history)) + 1, Len(history))

\* a turn as a user line followed by an assistant line
TurnLines(turn) == "User: " \o turn.user \o "\n" \o "Yara: " \o turn.assistant

\* up to three turns as lines, oldest first
RenderedTurns(turns) ==
    IF Len(turns) = 1 THEN TurnLines(turns[1])
    ELSE IF Len(turns) = 2 THEN TurnLines(turns[1]) \o "\n" \o TurnLines(turns[2])
    ELSE TurnLines(turns[1]) \o "\n" \o TurnLines(turns[2]) \o "\n"
         \o TurnLines(turns[3])

\* the prompt of the last turn when it holds exactly the given turns of the
\* history: they stand first, after "Context: ", and what follows is the
\* prompt of a turn without history
PromptWithTurns(turns) ==
    IF Len(turns) = 0
    THEN FullInput(last'.input, None, GetContextForNlp(memory'))
    ELSE "Context: " \o RenderedTurns(turns) \o "\n"
         \o FullInput(last'.input, None, GetContextForNlp(memory'))

\* C24 as stated: whenever the generator is invoked, its prompt contains the
\* last min(3, n) turns of the conversation history of n turns, each as a
\* user line followed by an assistant line, oldest first, and no older turn.
PromptHoldsRecentTurns ==
    [][(last'.op = "chat" /\ last'.generator_calls = 1) =>
          last'.prompt = PromptWithTurns(RecentTurns(chat_history))
    ]_vars

\* C24, amended: whenever the generator is invoked in a turn whose request
\* carries a session_id, its prompt contains the last min(3, n) turns of the
\* conversation history of n turns, each as a user line followed by an
\* assistant line, oldest first, and no older turn; in a turn whose request
\* carries no session_id the prompt contains no turn of the history.
PromptHoldsRecentTurnsOfSession ==
    [][(last'.op = "chat" /\ last'.generator_calls = 1) =>
          last'.prompt = IF last'.session /= None
                         THEN PromptWithTurns(RecentTurns(chat_history))
                         ELSE PromptWithTurns(<<>>)
    ]_vars

\* the fifth turn of a conversation reached the generator with a session_id:
\* its context is the second, third and fourth turn, and the greeting of the
\* first turn is not in the prompt
PromptLeftOutOldestTurn ==
    /\ last.op = "chat"
    /\ last.session = "A"
    /\ last.generator_calls = 1
    /\ Len(chat_history) = 5
    /\ chat_history[1].user = "hello hi hey"
    /\ \A i \in 2..5 : chat_history[i].user = last.input
    /\ last.context = RenderedTurns(SubSeq(chat_history, 2, 4))
    /\ StartsWith(last.prompt, "Context: " \o last.context \o "\n")
    /\ ~Contains(last.prompt, "hello hi hey")

\* C25: when the database is connected and the intent is a database intent
\* but the query returns no data or raises, no error reaches the caller and
\* the turn goes on through the next branches: the generator is called when
\* it is loaded, and the response is the generated text when the validator
\* accepts it and the static fallback for the intent otherwise.
DatabaseFallThrough ==
    (/\ last.op = "chat"
     /\ last.classifier_calls = 1
     /\ db_connected
     /\ last.used_intent \in DbIntents
     /\ last.db_calls = 1
     /\ ~NonEmptyData(last.used_intent, last.db))
    => /\ ~IsException(last.response)
       /\ last.used_confidence >= INTENT_THRESHOLD
       /\ last.generator_calls = (IF generator_loaded THEN 1 ELSE 0)
       /\ \/ /\ last.generator_calls = 1
             /\ last.candidate /= None
             /\ IsValidResponse(last.candidate, LowTable[last.input],
                                last.used_intent, ENABLE_RESPONSE_VALIDATION)
             /\ last.response = last.candidate
          \/ /\ ~(/\ last.generator_calls = 1
                   /\ last.candidate /= None
                   /\ IsValidResponse(last.candidate, LowTable[last.input],
                                      last.used_intent, ENABLE_RESPONSE_VALIDATION))
             /\ last.response = FallbackResponses[last.used_intent]

\* the customer query found no row and the turn was answered by the generator
GeneratedAfterEmptyQuery ==
    /\ last.op = "chat"
    /\ db_connected
    /\ last.used_intent = "customer_query"
    /\ last.db_calls = 1
    /\ last.db.kind = "data"
    /\ last.db.rows = <<>>
    /\ last.generator_calls = 1
    /\ last.response = last.candidate
    /\ last.response /= FallbackResponses["customer_query"]

\* C26: after any sequence of store, remove and clear (and of utterances
\* that store and forget), the value map and the metadata map have the same
\* keys, each key appears once in each, and a key that was just stored holds
\* the value of that store.
MemoryMetadataConsistent ==
    /\ KeysOf(memory) = KeysOf(memory_metadata)
    /\ Cardinality(KeysOf(memory)) = Len(memory)
    /\ Cardinality(KeysOf(memory_metadata)) = Len(memory_metadata)
    /\ last.op = "store" =>
          /\ HasKey(memory, last.key)
          /\ Retrieve(memory, last.key) = last.value
    /\ (last.op = "process_input" /\ last.action = "store") =>
          /\ HasKey(memory, last.key)
          /\ last.response = StoreAck(last.key, Retrieve(memory, last.key))

\* the name was stored again after two other keys: it is still the first
\* entry, once, with the new value, and the metadata has the same three keys
StoredOverExistingKey ==
    /\ last.op = "store"
    /\ last.key = "name"
    /\ last.value = "Alex"
    /\ Len(memory) = 3
    /\ memory[1] = [key |-> "name", value |-> "Alex"]
    /\ Len(memory_metadata) = 3
    /\ KeysOf(memory_metadata) = KeysOf(memory)

\* C27: the memory store changes only on a store-rule match or on a forget
\* that clears or resolves a key: a summary utterance, a query utterance, a
\* forget that does not clear and whose token resolves to no stored key, and
\* an utterance that matches no memory rule (answered with (None, 'none'))
\* leave every stored key, value and metadata entry unchanged.
StoreFrame ==
    [][last'.op = "process_input" =>
        LET g == GroupsTable[last'.input]
            clears == Contains(LowTable[last'.input], "what i told you")
            resolved == {k \in KeysOf(memory) :
                            \E token \in g.tokens : KeyMatches(k, token)}
            none == ~g.forget /\ ~g.summary /\ ~g.store /\ g.query = {}
        IN  /\ (\/ g.forget /\ ~clears /\ resolved = {}
                \/ ~g.forget /\ g.summary
                \/ ~g.forget /\ ~g.summary /\ ~g.store /\ g.query /= {}
                \/ none)
               => /\ memory' = memory
                  /\ memory_metadata' = memory_metadata
            /\ none => /\ last'.response = None
                       /\ last'.action = "none"
            /\ memory' /= memory =>
                  \/ ~g.forget /\ ~g.summary /\ g.store
                  \/ g.forget /\ (clears \/ resolved /= {})
    ]_vars

\* the name was to be forgotten while only other facts were stored: the
\* utterance was answered with nothing-to-forget and the facts are still there
NothingToForgetKeptStore ==
    /\ last.op = "process_input"
    /\ last.input = "forget my name"
    /\ last.action = "forget"
    /\ last.response = ForgetNothingText("name")
    /\ Len(memory) = 2
    /\ HasKey(memory, "favorite_color")
    /\ HasKey(memory, "location")

\* C28: recognize_intent returns a confidence below INTENT_THRESHOLD only in
\* its flat default (general_chat, 0.5); so the low-confidence branch of
\* generate_response is taken only with intent general_chat and its response
\* is the general_chat fallback, and for a threshold at or below 0.5 the
\* branch is never taken.
LowConfidenceOnlyGeneralChat ==
    (last.op = "generate_response" /\ last.classifier_calls = 1) =>
        /\ last.used_confidence < last.threshold =>
              /\ last.used_intent = "general_chat"
              /\ last.used_confidence = 500
        /\ (last.branch = "low_confidence") <=>
              (last.used_confidence < last.threshold)
        /\ last.branch = "low_confidence" =>
              /\ last.used_intent = "general_chat"
              /\ last.response = FallbackResponses["general_chat"]
        /\ last.threshold <= 500 => last.branch /= "low_confidence"

\* with the threshold at 0.5 an utterance that no pattern matches got the
\* flat default and passed the confidence test
DefaultPassedAtLowThreshold ==
    /\ last.op = "generate_response"
    /\ last.threshold = 500
    /\ last.input = "xyzzy"
    /\ ~sentence_model
    /\ last.classifier_calls = 1
    /\ last.used_intent = "general_chat"
    /\ last.used_confidence = 500
    /\ last.branch = "fallback"

\* C29: the generator is invoked in a turn only if the memory engine gave no
\* response and either the classifier returned general_chat with a confidence
\* of at least INTENT_THRESHOLD, or it returned a database intent, the
\* database is connected and the query gave no response; in every other turn
\* there is no generation call and no generated text.
GeneratorOnlyWhenReached ==
    last.op = "chat" =>
        /\ last.generator_calls >= 1 =>
              /\ last.classifier_calls = 1
              /\ last.action = "none"
              /\ \/ /\ last.used_intent = "general_chat"
                    /\ last.used_confidence >= INTENT_THRESHOLD
                 \/ /\ last.used_intent \in DbIntents
                    /\ last.used_confidence >= INTENT_THRESHOLD
                    /\ db_connected
                    /\ last.db_calls = 1
                    /\ HandleDatabaseQuery(last.used_intent, LowTable[last.input],
                                           last.db) = None
        /\ last.generator_calls = 0 =>
              /\ last.gen = NotGenerated
              /\ last.candidate = None
              /\ last.prompt = None

\* a turn of general conversation, recognized with confidence, reached the
\* generator without asking the database
GeneratedForGeneralChat ==
    /\ last.op = "chat"
    /\ last.classifier_calls = 1
    /\ last.used_intent = "general_chat"
    /\ last.used_confidence >= INTENT_THRESHOLD
    /\ last.db_calls = 0
    /\ last.generator_calls = 1
    /\ last.gen.kind = "echo"

====
